---- MODULE Spec2Model ----
(***************************************************************************)
(* A model of the Monkey-language interpreter: the token precedence table, *)
(* the Pratt parser, the AST renderer, the environment chain and the       *)
(* tree-walking evaluator.  Every Rust function is one operator of the     *)
(* same name; a Result is a record with an ok flag, and a function that    *)
(* takes &mut self returns the state it leaves behind with its result.     *)
(***************************************************************************)
EXTENDS Integers, Sequences, FiniteSets, TLC

VARIABLES
    pc,               \* where the run stands
    input,            \* the source, hand-built AST or operation of the last step
    code,             \* the text rendered by to_code
    parsed,           \* the Result of parse_program
    heap,             \* the Rc<RefCell<Environment>> cells, by address
    result,           \* the Result of Evaluator::eval, or of Environment::get
    executed,         \* the steps of the last evaluation, in order
    lines,            \* the number of lines read so far
    overflow_checks   \* the build: integer overflow panics (debug) or wraps (release)

vars == <<pc, input, code, parsed, heap, result, executed, lines, overflow_checks>>

(***************************************************************************)
(* token.rs: tokens.  A token is a record with its variant in `type`; the  *)
(* two variants with a payload carry it in `name` / `integer`.             *)
(***************************************************************************)
Token(type) == [type |-> type]

TokenIdentifier(name) == [type |-> "Identifier", name |-> name]

TokenInteger(integer) == [type |-> "Integer", integer |-> integer]

\* operator.rs: enum Precedences, ordered by declaration (derive PartialOrd).
Lowest == 0

Equals == 1

LessGreater == 2

Sum == 3

Product == 4

Prefix == 5

Call == 6

\* A precedence table with the levels of + - and * / exchanged.
precedence_swapped(token) ==
    CASE token.type \in {"Equal", "NotEqual"} -> Equals
      [] token.type \in {"LessThan", "GreaterThan"} -> LessGreater
      [] token.type \in {"Plus", "Minus"} -> Product
      [] token.type \in {"Slash", "Asterisk"} -> Sum
      [] token.type = "Lparentheses" -> Call
      [] OTHER -> Lowest

\* A table that gives `=` the level of `==`.
precedence_assign(token) ==
    CASE token.type \in {"Equal", "NotEqual", "Assign"} -> Equals
      [] token.type \in {"LessThan", "GreaterThan"} -> LessGreater
      [] token.type \in {"Plus", "Minus"} -> Sum
      [] token.type \in {"Slash", "Asterisk"} -> Product
      [] token.type = "Lparentheses" -> Call
      [] OTHER -> Lowest

\* Token::precedence
precedence(token) ==
    CASE token.type \in {"Equal", "NotEqual"} -> Equals
      [] token.type \in {"LessThan", "GreaterThan"} -> LessGreater
      [] token.type \in {"Plus", "Minus"} -> Sum
      [] token.type \in {"Slash", "Asterisk"} -> Product
      [] token.type = "Lparentheses" -> Call
      [] OTHER -> Lowest

(***************************************************************************)
(* ast.rs: the AST.  Option<Box<Statement>> is a sequence of length 0 or 1.*)
(***************************************************************************)
ExprIllegal == [kind |-> "Illegal"]

ExprIdentifier(name) == [kind |-> "Identifier", name |-> name]

ExprInteger(integer) == [kind |-> "Integer", integer |-> integer]

ExprBoolean(boolean) == [kind |-> "Boolean", boolean |-> boolean]

PrefixExpression(operator, expression) ==
    [kind |-> "PrefixExpression", operator |-> operator, expression |-> expression]

InfixExpression(left, operator, right) ==
    [kind |-> "InfixExpression", left |-> left, operator |-> operator, right |-> right]

IfExpression(condition, consequence, alternative) ==
    [kind |-> "IfExpression", condition |-> condition,
     consequence |-> consequence, alternative |-> alternative]

ExprFunction(parameters, body) ==
    [kind |-> "Function", parameters |-> parameters, body |-> body]

ExprCall(function, args) == [kind |-> "Call", function |-> function, args |-> args]

StmtLet(identifier, value) == [kind |-> "Let", identifier |-> identifier,
        value |-> value]

StmtReturn(expression) == [kind |-> "Return", expression |-> expression]

StmtExpression(expression) == [kind |-> "Expression", expression |-> expression]

StmtBlock(statements) == [kind |-> "Block", statements |-> statements]

\* ast::Program
Program(statements) == [statements |-> statements]

(***************************************************************************)
(* parser.rs.  The parser state is the record                              *)
(*   [current_token, next_token, lexer, read, trace, open]                 *)
(* where lexer is the sequence of tokens not read yet; once it is empty    *)
(* the lexer yields EndOfFile for ever.  read counts the calls of          *)
(* read_next_token and trace records the iterations of the loops of the    *)
(* parser: where each begins and how far each has read when it ends; open  *)
(* holds the read counts at which the unfinished iterations began, the     *)
(* innermost first.                                                        *)
(***************************************************************************)
Ok(value, p) == [ok |-> TRUE, value |-> value, parser |-> p]

Err(error, p) == [ok |-> FALSE, error |-> error, parser |-> p]

\* Lexer::read_next_token on a stream given token by token
read_next_token(lexer) ==
    IF lexer = <<>> THEN Token("EndOfFile") ELSE Head(lexer)

\* Parser::seek_token
seek_token(p0) ==
    CHOOSE out \in { (
        [current_token |-> p.next_token,
         next_token |-> read_next_token(p.lexer),
         lexer |-> IF p.lexer = <<>> THEN <<>> ELSE Tail(p.lexer),
         read |-> p.read + 1,
         trace |-> p.trace,
         open |-> p.open]
        ) : p \in {p0} } : TRUE

\* An iteration of a loop of the parser begins
Iterate(p, loop) ==
    [p EXCEPT !.trace = Append(@, [loop |-> loop, at |-> "begin",
                                   current_token |-> p.current_token,
                                   next_token |-> p.next_token,
                                   read |-> p.read]),
              !.open = <<p.read>> \o @]

\* The innermost iteration that has begun ends
Iterated(p, loop) ==
    [p EXCEPT !.trace = Append(@, [loop |-> loop, at |-> "end",
                                   from |-> p.open[1], read |-> p.read]),
              !.open = Tail(@)]

\* Parser::new
ParserNew(lexer) ==
    seek_token(seek_token([current_token |-> Token("Illegal"),
                           next_token |-> Token("Illegal"),
                           lexer |-> lexer, read |-> 0, trace |-> <<>>,
                           open |-> <<>>]))

\* A check that reports the token after the current one as the one found.
expect_current_next(p, type) ==
    IF p.current_token.type = type
    THEN Ok(<<>>, p)
    ELSE Err([error |-> "UnexpectedToken",
              actual_token |-> p.next_token,
              expected_token |-> Token(type)], p)

\* Parser::expect_current
expect_current(p, type) ==
    IF p.current_token.type = type
    THEN Ok(<<>>, p)
    ELSE Err([error |-> "UnexpectedToken",
              actual_token |-> p.current_token,
              expected_token |-> Token(type)], p)

\* Parser::parse_identifier
parse_identifier(p, identifier) == Ok(ExprIdentifier(identifier), p)

\* Parser::parse_integer
parse_integer(p, identifier) == Ok(ExprInteger(identifier), p)

\* Parser::parse_boolean
parse_boolean(p, boolean) == Ok(ExprBoolean(boolean), p)

\* The match of parse_infix_expression from the current token to operator::Infix
InfixOf(token) ==
    CASE token.type = "Plus" -> "Plus"
      [] token.type = "Minus" -> "Minus"
      [] token.type = "Asterisk" -> "Asterisk"
      [] token.type = "Slash" -> "Slash"
      [] token.type = "LessThan" -> "LessThan"
      [] token.type = "GreaterThan" -> "GreaterThan"
      [] token.type = "Equal" -> "Equal"
      [] token.type = "NotEqual" -> "NotEqual"
      [] OTHER -> "none"

(***************************************************************************)
(* A value that the code computes once and then uses, `let x = value;`,   *)
(* is bound by                                                             *)
(*     CHOOSE out \in { (e) : x \in {value} } : TRUE                       *)
(* which is e with x standing for the value.                               *)
(***************************************************************************)
RECURSIVE parse_statement(_)
RECURSIVE parse_statements_loop(_, _, _)
RECURSIVE parse_expression(_, _)
RECURSIVE parse_expression_loop(_, _, _)
RECURSIVE parse_parameters_loop(_, _)

\* Parser::parse_block_statement
parse_block_statement(p) ==
    CHOOSE out \in { (
        IF r.ok THEN Ok(StmtBlock(r.value), r.parser) ELSE r
        ) : r \in {parse_statements_loop(seek_token(p), <<>>, TRUE)} } : TRUE

\* The name of a statement loop in the trace
LoopOf(in_block) == IF in_block THEN "block" ELSE "program"

\* A statement loop that goes on with the next statement after a failure.
parse_statements_loop_recovering(p, statements, in_block) ==
    IF \/ p.current_token.type = "EndOfFile"
       \/ (in_block /\ p.current_token.type = "Rbrace")
    THEN Ok(statements, p)
    ELSE CHOOSE out \in { (
             parse_statements_loop(
                 Iterated(seek_token(r.parser), LoopOf(in_block)),
                 IF r.ok THEN Append(statements, r.value) ELSE statements,
                 in_block)
             ) : r \in {parse_statement(Iterate(p, LoopOf(in_block)))} } : TRUE

\* A statement loop that ends a block on Rbrace only.
parse_statements_loop_unclosed(p, statements, in_block) ==
    IF \/ (~in_block /\ p.current_token.type = "EndOfFile")
       \/ (in_block /\ p.current_token.type = "Rbrace")
    THEN Ok(statements, p)
    ELSE CHOOSE out \in { (
             IF r.ok
             THEN parse_statements_loop(
                      Iterated(seek_token(r.parser), LoopOf(in_block)),
                      Append(statements, r.value), in_block)
             ELSE r
             ) : r \in {parse_statement(Iterate(p, LoopOf(in_block)))} } : TRUE

\* The statement loops of parse_program (in_block = FALSE) and of
\* parse_block_statement (in_block = TRUE)
parse_statements_loop(p, statements, in_block) ==
    IF \/ p.current_token.type = "EndOfFile"
       \/ (in_block /\ p.current_token.type = "Rbrace")
    THEN Ok(statements, p)
    ELSE CHOOSE out \in { (
             IF r.ok
             THEN parse_statements_loop(
                      Iterated(seek_token(r.parser), LoopOf(in_block)),
                      Append(statements, r.value), in_block)
             ELSE r
             ) : r \in {parse_statement(Iterate(p, LoopOf(in_block)))} } : TRUE

\* The optional semicolon that ends the three statement forms
skip_semicolon(p) ==
    IF p.next_token.type = "Semicolon" THEN seek_token(p) ELSE p

\* Parser::parse_let_statement
parse_let_statement(p) ==
    IF seek_token(p).current_token.type # "Identifier"
    THEN Err([error |-> "NotFoundLetIdentifier",
              found_token |-> seek_token(p).next_token], seek_token(p))
    ELSE IF ~expect_current(seek_token(seek_token(p)), "Assign").ok
    THEN expect_current(seek_token(seek_token(p)), "Assign")
    ELSE CHOOSE out \in { (
             IF ~r.ok THEN r
             ELSE Ok(StmtLet(ExprIdentifier(seek_token(p).current_token.name),
                             r.value),
                     skip_semicolon(r.parser))
             ) : r \in {
             parse_expression(seek_token(seek_token(seek_token(p))), Lowest)
             } } : TRUE

\* Parser::parse_return_statement
parse_return_statement(p) ==
    CHOOSE out \in { (
        IF ~r.ok THEN r
        ELSE Ok(StmtReturn(r.value), skip_semicolon(r.parser))
        ) : r \in {parse_expression(seek_token(p), Lowest)} } : TRUE

\* Parser::parse_expression_statement
parse_expression_statement(p) ==
    CHOOSE out \in { (
        IF ~r.ok THEN r
        ELSE Ok(StmtExpression(r.value), skip_semicolon(r.parser))
        ) : r \in {parse_expression(p, Lowest)} } : TRUE

\* Parser::parse_statement
parse_statement(p) ==
    CASE p.current_token.type = "Let" -> parse_let_statement(p)
      [] p.current_token.type = "Return" -> parse_return_statement(p)
      [] OTHER -> parse_expression_statement(p)

\* A prefix parser that takes an infix expression of any level as operand.
parse_prefix_expression_greedy(p, operator) ==
    CHOOSE out \in { (
        IF ~r.ok THEN r
        ELSE Ok(PrefixExpression(operator, r.value), r.parser)
        ) : r \in {parse_expression(p, Lowest)} } : TRUE

\* Parser::parse_prefix_expression
parse_prefix_expression(p, operator) ==
    CHOOSE out \in { (
        IF ~r.ok THEN r
        ELSE Ok(PrefixExpression(operator, r.value), r.parser)
        ) : r \in {parse_expression(p, Prefix)} } : TRUE

\* Parser::parse_grouped_expression
parse_grouped_expression(p) ==
    CHOOSE out \in { (
        IF ~r.ok THEN r
        ELSE IF ~expect_current(seek_token(r.parser), "Rparentheses").ok
        THEN expect_current(seek_token(r.parser), "Rparentheses")
        ELSE Ok(r.value, seek_token(r.parser))
        ) : r \in {parse_expression(seek_token(p), Lowest)} } : TRUE

\* Parser::parse_if_expression
parse_if_expression(p) ==
    IF ~expect_current(seek_token(p), "Lparentheses").ok
    THEN expect_current(seek_token(p), "Lparentheses")
    ELSE
    CHOOSE out \in { (
        IF ~c.ok THEN c
        ELSE IF ~expect_current(seek_token(c.parser), "Rparentheses").ok
        THEN expect_current(seek_token(c.parser), "Rparentheses")
        ELSE IF ~expect_current(seek_token(seek_token(c.parser)), "Lbrace").ok
        THEN expect_current(seek_token(seek_token(c.parser)), "Lbrace")
        ELSE
    CHOOSE out \in { (
        IF ~consequence.ok THEN consequence
        ELSE IF consequence.parser.next_token.type # "Else"
        THEN Ok(IfExpression(c.value, consequence.value, <<>>),
                consequence.parser)
        ELSE IF ~expect_current(seek_token(seek_token(consequence.parser)),
                                "Lbrace").ok
        THEN expect_current(seek_token(seek_token(consequence.parser)), "Lbrace")
        ELSE
    CHOOSE out \in { (
        IF ~alternative.ok THEN alternative
        ELSE Ok(IfExpression(c.value, consequence.value,
                             <<alternative.value>>),
                alternative.parser)
        ) : alternative \in {
        parse_block_statement(seek_token(seek_token(consequence.parser)))
        } } : TRUE
        ) : consequence \in {
        parse_block_statement(seek_token(seek_token(c.parser)))
        } } : TRUE
        ) : c \in {parse_expression(seek_token(seek_token(p)), Lowest)} } : TRUE

\* The while loop of parse_function_parameters, entered on Comma or Rparentheses
parse_parameters_loop(p, parameters) ==
    IF p.current_token.type # "Comma"
    THEN Ok(parameters, p)
    ELSE CHOOSE out \in { (
             IF ~r.ok THEN r
             ELSE parse_parameters_loop(
                      Iterated(seek_token(r.parser), "parameters"),
                      Append(parameters, r.value))
             ) : r \in {
             parse_expression(seek_token(Iterate(p, "parameters")), Lowest)
             } } : TRUE

\* Parser::parse_function_parameters
parse_function_parameters(p) ==
    IF p.current_token.type = "Rparentheses"
    THEN Ok(<<>>, p)
    ELSE CHOOSE out \in { (
             IF ~r.ok THEN r
             ELSE parse_parameters_loop(seek_token(r.parser), <<r.value>>)
             ) : r \in {parse_expression(p, Lowest)} } : TRUE

\* Parser::parse_function_expression
parse_function_expression(p) ==
    IF ~expect_current(seek_token(p), "Lparentheses").ok
    THEN expect_current(seek_token(p), "Lparentheses")
    ELSE
    CHOOSE out \in { (
        IF ~parameters.ok THEN parameters
        ELSE IF ~expect_current(parameters.parser, "Rparentheses").ok
        THEN expect_current(parameters.parser, "Rparentheses")
        ELSE IF ~expect_current(seek_token(parameters.parser), "Lbrace").ok
        THEN expect_current(seek_token(parameters.parser), "Lbrace")
        ELSE
    CHOOSE out \in { (
        IF ~body.ok THEN body
        ELSE Ok(ExprFunction(parameters.value, body.value), body.parser)
        ) : body \in {parse_block_statement(seek_token(parameters.parser))} } : TRUE
        ) : parameters \in {
        parse_function_parameters(seek_token(seek_token(p)))
        } } : TRUE

\* Parser::parse_call_expression
parse_call_expression(p, function) ==
    CHOOSE out \in { (
        IF ~args.ok THEN args
        ELSE IF ~expect_current(args.parser, "Rparentheses").ok
        THEN expect_current(args.parser, "Rparentheses")
        ELSE Ok(ExprCall(function, args.value), args.parser)
        ) : args \in {parse_function_parameters(seek_token(p))} } : TRUE

\* An infix parser whose right operand takes operators of the same level too.
parse_infix_expression_right(p, left) ==
    IF p.current_token.type = "Lparentheses"
    THEN parse_call_expression(p, left)
    ELSE IF InfixOf(p.current_token) = "none"
    THEN Err([error |-> "NotFoundInfixToken", found_token |-> p.current_token], p)
    ELSE CHOOSE out \in { (
             IF ~r.ok THEN r
             ELSE Ok(InfixExpression(left, InfixOf(p.current_token), r.value),
                     r.parser)
             ) : r \in {
             parse_expression(seek_token(p), precedence(p.current_token) - 1)
             } } : TRUE

\* Parser::parse_infix_expression
parse_infix_expression(p, left) ==
    IF p.current_token.type = "Lparentheses"
    THEN parse_call_expression(p, left)
    ELSE IF InfixOf(p.current_token) = "none"
    THEN Err([error |-> "NotFoundInfixToken", found_token |-> p.current_token], p)
    ELSE CHOOSE out \in { (
             IF ~r.ok THEN r
             ELSE Ok(InfixExpression(left, InfixOf(p.current_token), r.value),
                     r.parser)
             ) : r \in {
             parse_expression(seek_token(p), precedence(p.current_token))
             } } : TRUE

\* The while loop of parse_expression
parse_expression_loop(p, expression, min_precedence) ==
    IF /\ p.next_token.type # "Semicolon"
       /\ min_precedence < precedence(p.next_token)
    THEN CHOOSE out \in { (
             IF ~r.ok THEN r
             ELSE parse_expression_loop(Iterated(r.parser, "infix"), r.value,
                                        min_precedence)
             ) : r \in {
             parse_infix_expression(seek_token(Iterate(p, "infix")), expression)
             } } : TRUE
    ELSE Ok(expression, p)

\* Parser::parse_expression
parse_expression(p, min_precedence) ==
    CHOOSE out \in { (
        IF ~r.ok THEN r
        ELSE parse_expression_loop(r.parser, r.value, min_precedence)
        ) : r \in {
        CASE p.current_token.type = "Identifier" ->
                 parse_identifier(p, p.current_token.name)
          [] p.current_token.type = "Integer" ->
                 parse_integer(p, p.current_token.integer)
          [] p.current_token.type = "Minus" ->
                 parse_prefix_expression(seek_token(p), "Minus")
          [] p.current_token.type = "Exclamation" ->
                 parse_prefix_expression(seek_token(p), "Exclamation")
          [] p.current_token.type = "True" -> parse_boolean(p, TRUE)
          [] p.current_token.type = "False" -> parse_boolean(p, FALSE)
          [] p.current_token.type = "Lparentheses" -> parse_grouped_expression(p)
          [] p.current_token.type = "If" -> parse_if_expression(p)
          [] p.current_token.type = "Function" -> parse_function_expression(p)
          [] OTHER -> Err([error |-> "UnImplementationParser",
                           message |-> "unimplemented expression parser"], p)
        } } : TRUE

\* Parser::parse_program on Parser::new(lexer)
parse_program(lexer) ==
    CHOOSE out \in { (
        IF r.ok THEN Ok(Program(r.value), r.parser) ELSE r
        ) : r \in {parse_statements_loop(ParserNew(lexer), <<>>, FALSE)} } : TRUE

(***************************************************************************)
(* ast.rs: the renderer.  A text is the sequence of its lexemes and blanks *)
(* in order (the string is their concatenation); an integer is rendered by *)
(* i32::to_string as one lexeme.                                           *)
(***************************************************************************)
\* operator::Prefix::to_code
Prefix_to_code(operator) ==
    CASE operator = "Minus" -> "-"
      [] operator = "Exclamation" -> "!"

\* operator::Infix::to_code
Infix_to_code(operator) ==
    CASE operator = "Plus" -> "+"
      [] operator = "Minus" -> "-"
      [] operator = "Asterisk" -> "*"
      [] operator = "Slash" -> "/"
      [] operator = "LessThan" -> "<"
      [] operator = "GreaterThan" -> ">"
      [] operator = "Equal" -> "=="
      [] operator = "NotEqual" -> "!="

RECURSIVE Statement_to_code(_)
RECURSIVE Expression_to_code(_)
RECURSIVE join_to_code(_, _)
RECURSIVE block_to_code(_, _)

\* expressions.iter().map(to_code).collect().join(", "), from the i-th on
join_to_code(expressions, i) ==
    IF i > Len(expressions) THEN <<>>
    ELSE (IF i > 1 THEN <<",", " ">> ELSE <<>>)
         \o Expression_to_code(expressions[i])
         \o join_to_code(expressions, i + 1)

\* The for loop of Statement::to_code on a Block, from the i-th statement on
block_to_code(statements, i) ==
    IF i > Len(statements) THEN <<>>
    ELSE <<"\n">> \o Statement_to_code(statements[i])
         \o block_to_code(statements, i + 1)

\* Expression::to_code
Expression_to_code(e) ==
    CASE e.kind = "Identifier" -> <<e.name>>
      [] e.kind = "Integer" -> <<ToString(e.integer)>>
      [] e.kind = "Boolean" -> IF e.boolean THEN <<"true">> ELSE <<"false">>
      [] e.kind = "PrefixExpression" ->
             <<"(", Prefix_to_code(e.operator)>>
             \o Expression_to_code(e.expression) \o <<")">>
      [] e.kind = "InfixExpression" ->
             <<"(">> \o Expression_to_code(e.left)
             \o <<" ", Infix_to_code(e.operator), " ">>
             \o Expression_to_code(e.right) \o <<")">>
      [] e.kind = "IfExpression" ->
             <<"if", " ">> \o Expression_to_code(e.condition) \o <<" ">>
             \o Statement_to_code(e.consequence) \o <<" ">>
             \o (IF e.alternative # <<>>
                 THEN <<"else", " ">> \o Statement_to_code(e.alternative[1])
                 ELSE <<>>)
      [] e.kind = "Function" ->
             <<"fn", "(">> \o join_to_code(e.parameters, 1) \o <<")">>
             \o Statement_to_code(e.body)
      [] e.kind = "Call" ->
             Expression_to_code(e.function) \o <<"(">>
             \o join_to_code(e.args, 1) \o <<")">>
      [] e.kind = "Illegal" -> <<"[", "illegal", " ", "expression", "]">>

\* Statement::to_code
Statement_to_code(s) ==
    CASE s.kind = "Let" ->
             <<"let", " ">> \o Expression_to_code(s.identifier)
             \o <<" ", "=", " ">> \o Expression_to_code(s.value) \o <<";">>
      [] s.kind = "Return" ->
             <<"return", " ">> \o Expression_to_code(s.expression) \o <<";">>
      [] s.kind = "Expression" -> Expression_to_code(s.expression) \o <<";">>
      [] s.kind = "Block" ->
             <<"{">> \o block_to_code(s.statements, 1) \o <<"\n", "}">>

RECURSIVE Program_to_code_from(_, _)
\* The for loop of Program::to_code, from the i-th statement on
Program_to_code_from(statements, i) ==
    IF i > Len(statements) THEN <<>>
    ELSE Statement_to_code(statements[i]) \o <<"\n">>
         \o Program_to_code_from(statements, i + 1)

\* Program::to_code
Program_to_code(program) == Program_to_code_from(program.statements, 1)

(***************************************************************************)
(* lexer.rs: the tokens of a text.                                         *)
(***************************************************************************)
\* The largest magnitude of an integer literal that the texts hold
MaxLiteral == 10

\* Lexer::lookup_identifier
lookup_identifier(identifier) ==
    CASE identifier = "fn" -> Token("Function")
      [] identifier = "let" -> Token("Let")
      [] identifier = "true" -> Token("True")
      [] identifier = "false" -> Token("False")
      [] identifier = "if" -> Token("If")
      [] identifier = "else" -> Token("Else")
      [] identifier = "return" -> Token("Return")
      [] OTHER -> TokenIdentifier(identifier)

\* Lexer::next_token on one lexeme: the tokens it is read as.  Blanks are
\* skipped; the text of a negative integer is read as a minus sign and digits.
next_token(lexeme) ==
    CASE lexeme \in {" ", "\n", "\t", "\r"} -> <<>>
      [] lexeme = "=" -> <<Token("Assign")>>
      [] lexeme = "==" -> <<Token("Equal")>>
      [] lexeme = ";" -> <<Token("Semicolon")>>
      [] lexeme = "(" -> <<Token("Lparentheses")>>
      [] lexeme = ")" -> <<Token("Rparentheses")>>
      [] lexeme = "," -> <<Token("Comma")>>
      [] lexeme = "+" -> <<Token("Plus")>>
      [] lexeme = "-" -> <<Token("Minus")>>
      [] lexeme = "!" -> <<Token("Exclamation")>>
      [] lexeme = "!=" -> <<Token("NotEqual")>>
      [] lexeme = "/" -> <<Token("Slash")>>
      [] lexeme = "*" -> <<Token("Asterisk")>>
      [] lexeme = "<" -> <<Token("LessThan")>>
      [] lexeme = ">" -> <<Token("GreaterThan")>>
      [] lexeme = "{" -> <<Token("Lbrace")>>
      [] lexeme = "}" -> <<Token("Rbrace")>>
      [] lexeme \in {"[", "]"} -> <<Token("Illegal")>>
      [] \E n \in 0..MaxLiteral : lexeme = ToString(n) ->
             <<TokenInteger(CHOOSE n \in 0..MaxLiteral : lexeme = ToString(n))>>
      [] \E n \in 1..MaxLiteral : lexeme = ToString(-n) ->
             <<Token("Minus"),
               TokenInteger(CHOOSE n \in 1..MaxLiteral : lexeme = ToString(-n))>>
      [] OTHER -> <<lookup_identifier(lexeme)>>

RECURSIVE Lexer(_)
\* The token stream of a text: next_token until the text ends
Lexer(text) ==
    IF text = <<>> THEN <<>>
    ELSE next_token(Head(text)) \o Lexer(Tail(text))

(***************************************************************************)
(* The parser and the renderer as a state machine: a token stream is       *)
(* parsed; a hand-built AST is rendered and the text is parsed again.      *)
(***************************************************************************)
InfixTokens ==
    {"Plus", "Minus", "Asterisk", "Slash", "LessThan", "GreaterThan", "Equal",
            "NotEqual"}

PrefixTokens == {"Minus", "Exclamation"}

SourceNames == {"a", "b"}

\* `x op1 y op2 z` with and without the closing semicolon
ChainSources ==
    { <<TokenIdentifier(x), Token(op1), TokenIdentifier(y), Token(op2),
        TokenIdentifier(z)>> \o end :
        x \in SourceNames, y \in SourceNames, z \in SourceNames,
        op1 \in InfixTokens, op2 \in InfixTokens,
        end \in {<<>>, <<Token("Semicolon")>>} }

\* `-a op b`, `!-a`, `-f(x)`, `-f(x) op b`
PrefixSources ==
    { <<Token(pre), TokenIdentifier("a"), Token(op), TokenIdentifier("b")>> :
        pre \in PrefixTokens, op \in InfixTokens }
    \cup { <<Token(pre1), Token(pre2), TokenIdentifier("a")>> :
        pre1 \in PrefixTokens, pre2 \in PrefixTokens }
    \cup { <<Token(pre), TokenIdentifier("f"), Token("Lparentheses"),
             TokenIdentifier("x"), Token("Rparentheses")>> : pre \in PrefixTokens }
    \cup { <<Token(pre), TokenIdentifier("f"), Token("Lparentheses"),
             TokenIdentifier("x"), Token("Rparentheses"), Token(op),
             TokenIdentifier("b")>> : pre \in PrefixTokens, op \in InfixTokens }

\* Programs that hold every kind of token, well-formed and not
MixedSources ==
    { <<Token("Let"), TokenIdentifier("x"), Token("Assign"), TokenInteger(1),
        Token("Semicolon"), Token("EndOfFile")>>,
      <<Token("If"), Token("Lparentheses"), TokenIdentifier("a"), Token("LessThan"),
        TokenIdentifier("b"), Token("Rparentheses"), Token("Lbrace"), Token("Return"),
        Token("True"), Token("Semicolon"), Token("Rbrace"), Token("Else"),
        Token("Lbrace"), Token("False"), Token("Rbrace")>>,
      <<Token("Function"), Token("Lparentheses"), TokenIdentifier("x"), Token("Comma"),
        TokenIdentifier("y"), Token("Rparentheses"), Token("Lbrace"),
        TokenIdentifier("x"), Token("Plus"), TokenIdentifier("y"), Token("Semicolon"),
        Token("Rbrace"), Token("Lparentheses"), TokenInteger(1), Token("Comma"),
        TokenInteger(2), Token("Rparentheses")>>,
      <<Token("Lparentheses"), TokenInteger(1), Token("Plus"), TokenInteger(2),
        Token("Rparentheses"), Token("Asterisk"), TokenInteger(3)>>,
      <<Token("Let"), TokenIdentifier("x"), TokenInteger(1)>>,
      <<Token("Let"), Token("Assign"), TokenInteger(1)>>,
      <<Token("Illegal"), Token("Semicolon")>>,
      <<Token("Lparentheses"), TokenInteger(1), Token("Semicolon")>>,
      <<Token("Rbrace")>>,
      <<Token("If"), TokenIdentifier("a"), Token("Lbrace"), Token("Rbrace")>> }

Sources == ChainSources \cup PrefixSources \cup MixedSources

\* Hand-built ASTs, two levels of expressions deep
HandNames == {"a", "f"}

HandAtoms ==
    { ExprIdentifier(n) : n \in HandNames }
    \cup { ExprInteger(i) : i \in {1, -2} } \cup { ExprBoolean(TRUE) }

HandBlocks ==
    { StmtBlock(<<>>) } \cup { StmtBlock(<<StmtExpression(e)>>) : e \in HandAtoms }
    \cup { StmtBlock(<<StmtReturn(ExprInteger(1)),
            StmtExpression(ExprIdentifier("a"))>>) }

HandExpressions ==
    HandAtoms
    \cup { PrefixExpression(op, e) : op \in PrefixTokens, e \in HandAtoms }
    \cup { InfixExpression(l, op, r) :
             l \in HandAtoms, op \in {"Plus", "Asterisk", "LessThan", "NotEqual"},
             r \in HandAtoms }
    \cup { IfExpression(c, b, alt) :
             c \in HandAtoms \cup { InfixExpression(ExprIdentifier("a"), "LessThan",
                                                    ExprInteger(1)) },
             b \in HandBlocks, alt \in {<<>>, <<StmtBlock(<<>>)>>} }
    \cup { ExprFunction(ps, b) :
             ps \in {<<>>, <<ExprIdentifier("a")>>,
                     <<ExprIdentifier("a"), ExprIdentifier("f")>>},
             b \in HandBlocks }
    \cup { ExprCall(f, args) :
             f \in { ExprIdentifier("f"),
                     ExprFunction(<<ExprIdentifier("a")>>,
                                  StmtBlock(<<StmtExpression(ExprIdentifier("a"))>>)) },
             args \in {<<>>, <<ExprInteger(1)>>,
                       <<ExprIdentifier("a"), ExprInteger(-2)>>} }

HandStatements ==
    { StmtLet(ExprIdentifier("a"), e) : e \in HandExpressions }
    \cup { StmtReturn(e) : e \in HandExpressions }
    \cup { StmtExpression(e) : e \in HandExpressions }
    \cup HandBlocks

HandPrograms ==
    { Program(<<>>) } \cup { Program(<<s>>) : s \in HandStatements }
    \cup { Program(<<StmtLet(ExprIdentifier("a"), ExprInteger(1)), s>>) :
             s \in { StmtReturn(ExprIdentifier("a")),
                     StmtExpression(ExprInteger(1)) } }

\* No value: the variables a specification does not use
None == <<>>

InitParser ==
    /\ \/ pc = "source" /\ input \in Sources
       \/ pc = "ast" /\ input \in HandPrograms
    /\ code = None /\ parsed = None
    /\ heap = None /\ result = None /\ executed = None /\ lines = 0
    /\ overflow_checks = TRUE

\* parser.parse_program() on the tokens of a source
Parse ==
    /\ pc = "source"
    /\ parsed' = parse_program(input)
    /\ pc' = "parsed"
    /\ UNCHANGED <<input, code, heap, result, executed, lines, overflow_checks>>

\* program.to_code() on a hand-built AST
Render ==
    /\ pc = "ast"
    /\ code' = Program_to_code(input)
    /\ pc' = "code"
    /\ UNCHANGED <<input, parsed, heap, result, executed, lines, overflow_checks>>

\* Parser::new(Lexer::new(code)).parse_program() on the rendered text
Reparse ==
    /\ pc = "code"
    /\ parsed' = parse_program(Lexer(code))
    /\ pc' = "reparsed"
    /\ UNCHANGED <<input, code, heap, result, executed, lines, overflow_checks>>

NextParser == Parse \/ Render \/ Reparse

SpecParser == InitParser /\ [][NextParser]_vars

(***************************************************************************)
(* Properties of the parser and the renderer                               *)
(***************************************************************************)
\* The level the precedence table gives an infix operator (section 4.1)
TableLevel(type) ==
    CASE type \in {"Equal", "NotEqual"} -> Equals
      [] type \in {"LessThan", "GreaterThan"} -> LessGreater
      [] type \in {"Plus", "Minus"} -> Sum
      [] type \in {"Asterisk", "Slash"} -> Product
      [] type = "Lparentheses" -> Call
      [] OTHER -> Lowest

\* The source is `x op1 y op2 z`, with or without a closing semicolon
IsChain(source) ==
    /\ Len(source) \in {5, 6}
    /\ source[1].type = "Identifier" /\ source[2].type \in InfixTokens
    /\ source[3].type = "Identifier" /\ source[4].type \in InfixTokens
    /\ source[5].type = "Identifier"
    /\ Len(source) = 6 => source[6].type = "Semicolon"

\* The grouping the climbing rule asks for
ChainExpected(source) ==
    LET x == ExprIdentifier(source[1].name)
        y == ExprIdentifier(source[3].name)
        z == ExprIdentifier(source[5].name)
        op1 == source[2].type
        op2 == source[4].type
    IN  IF TableLevel(op2) <= TableLevel(op1)
        THEN InfixExpression(InfixExpression(x, op1, y), op2, z)
        ELSE InfixExpression(x, op1, InfixExpression(y, op2, z))

\* C1: `x op1 y op2 z` parses to ((x op1 y) op2 z) when the level of op2 is at
\* most that of op1 (so equal levels associate to the left) and to
\* (x op1 (y op2 z)) when the level of op2 is higher.
C1_ClimbingRule ==
    (pc = "parsed" /\ IsChain(input)) =>
        /\ parsed.ok
        /\ parsed.value = Program(<<StmtExpression(ChainExpected(input))>>)

\* A chain of two operators of the same level has been parsed to the left
C1_Witness ==
    /\ pc = "parsed" /\ IsChain(input)
    /\ input[2].type = "Minus" /\ input[4].type = "Plus"
    /\ parsed.ok
    /\ parsed.value.statements[1].expression.left.kind = "InfixExpression"

\* The source starts with a unary prefix operator
StartsWithPrefix(source) == Len(source) >= 3 /\ source[1].type \in PrefixTokens

\* What a source that starts with a prefix operator must parse to
PrefixExpected(source) ==
    LET pre == source[1].type
        callee == PrefixExpression(pre,
                      ExprCall(ExprIdentifier(source[2].name),
                               <<ExprIdentifier(source[4].name)>>))
    IN  CASE Len(source) = 3 ->
                 PrefixExpression(pre, PrefixExpression(source[2].type,
                                           ExprIdentifier(source[3].name)))
          [] Len(source) = 4 ->
                 InfixExpression(PrefixExpression(pre, ExprIdentifier(source[2].name)),
                                 source[3].type, ExprIdentifier(source[4].name))
          [] Len(source) = 5 -> callee
          [] Len(source) = 7 ->
                 InfixExpression(callee, source[6].type, ExprIdentifier(source[7].name))

\* C2: a prefix operator takes the next primary expression with its call
\* applications as operand and nothing more: `-a op b` is ((-a) op b), `-f(x)`
\* is the prefix of the call, `-f(x) op b` is ((-f(x)) op b), `!-a` is (!(-a)).
C2_PrefixBindsTighter ==
    (pc = "parsed" /\ StartsWithPrefix(input)) =>
        /\ parsed.ok
        /\ parsed.value = Program(<<StmtExpression(PrefixExpected(input))>>)

\* `-a * b` has been parsed: the product has the negation as its left operand
C2_Witness ==
    /\ pc = "parsed" /\ StartsWithPrefix(input) /\ Len(input) = 4
    /\ input[1].type = "Minus" /\ input[3].type = "Asterisk"
    /\ parsed.ok
    /\ parsed.value.statements[1].expression.left.kind = "PrefixExpression"

\* C3: Lowest < Equals < LessGreater < Sum < Product < Prefix < Call, and
\* Token::precedence gives == != Equals, < > LessGreater, + - Sum, * / Product,
\* ( Call and every other token Lowest (every token the parser reads).
C3_PrecedenceTable ==
    /\ Lowest < Equals /\ Equals < LessGreater /\ LessGreater < Sum
    /\ Sum < Product /\ Product < Prefix /\ Prefix < Call
    /\ pc \in {"source", "parsed"} =>
         /\ \A i \in 1..Len(input) : precedence(input[i]) = TableLevel(input[i].type)
         /\ precedence(read_next_token(<<>>)) = Lowest

\* A source with (, + and * has been parsed
C3_Witness ==
    /\ pc = "parsed" /\ parsed.ok
    /\ \E i \in 1..Len(input) : input[i].type = "Lparentheses"
    /\ \E i \in 1..Len(input) : input[i].type = "Asterisk"
    /\ \E i \in 1..Len(input) : input[i].type = "Plus"

\* C4: the text that to_code renders of an AST parses, and to an equal AST.
C4_RoundTrip ==
    pc = "reparsed" => (parsed.ok /\ parsed.value = input)

(***************************************************************************)
(* object.rs: runtime values.  A Function holds its Environment by value;  *)
(* that Environment's outer link is the shared cell of the defining scope. *)
(***************************************************************************)
ObjInteger(integer) == [type |-> "Integer", integer |-> integer]

ObjBoolean(boolean) == [type |-> "Boolean", boolean |-> boolean]

ObjNull == [type |-> "Null"]

ObjReturnValue(object) == [type |-> "ReturnValue", object |-> object]

ObjFunction(parameters, body, environment) ==
    [type |-> "Function", parameters |-> parameters, body |-> body,
     environment |-> environment]

\* A truthiness that takes the integer 0 as false.
is_truthly_nonzero(object) ==
    CASE object.type = "Boolean" -> object.boolean
      [] object.type = "Null" -> FALSE
      [] object.type = "Integer" -> object.integer # 0
      [] OTHER -> TRUE

\* Object::is_truthly
is_truthly(object) ==
    CASE object.type = "Boolean" -> object.boolean
      [] object.type = "Null" -> FALSE
      [] OTHER -> TRUE

\* The range of i32
I32Max == 2147483647

I32Min == -I32Max - 1

\* i32 addition: [overflow, value], value being the sum the hardware leaves
\* (the wrapped sum when it overflows); no step leaves the range of i32
overflowing_add(a, b) ==
    IF b > 0 /\ a > I32Max - b
    THEN [overflow |-> TRUE, value |-> (a + I32Min) + (b + I32Min)]
    ELSE IF b < 0 /\ a < I32Min - b
         THEN [overflow |-> TRUE, value |-> (a - I32Min) + (b - I32Min)]
         ELSE [overflow |-> FALSE, value |-> a + b]

\* i32 negation
overflowing_neg(a) ==
    IF a = I32Min THEN [overflow |-> TRUE, value |-> I32Min]
    ELSE [overflow |-> FALSE, value |-> -a]

\* i32 subtraction
overflowing_sub(a, b) ==
    IF b < 0 /\ a > I32Max + b
    THEN [overflow |-> TRUE, value |-> (a + I32Min) - (b - I32Min)]
    ELSE IF b > 0 /\ a < I32Min + b
         THEN [overflow |-> TRUE, value |-> (a - I32Min) - (b + I32Min)]
         ELSE [overflow |-> FALSE, value |-> a - b]

\* A quotient rounded down, toward the lesser integer.
floor_div(left, right) == left \div right

\* left / right for right > 0, truncated toward zero
truncating_div(left, right) ==
    IF left < 0 /\ left % right # 0
    THEN (left \div right) + 1
    ELSE left \div right

\* The two 16-bit halves of the two's complement word of an i32
Low16(a) == a % 65536

High16(a) == (a \div 65536) % 65536

\* The two 16-bit halves of the product of two 16-bit halves, computed on
\* one byte of y at a time so that no step leaves the range of i32
MulLow16(x, y) == ((x * (y % 256)) + ((x * (y \div 256)) % 256) * 256) % 65536

MulHigh16(x, y) == ((x * (y \div 256)) + ((x * (y % 256)) \div 256)) \div 256

\* The low 32 bits of the product, read as an i32
wrapping_mul(a, b) ==
    CHOOSE out \in { (
        (IF high >= 32768 THEN high - 65536 ELSE high) * 65536
        + MulLow16(Low16(a), Low16(b))
        ) : high \in {
        (MulHigh16(Low16(a), Low16(b)) + MulLow16(High16(a), Low16(b))
         + MulLow16(Low16(a), High16(b))) % 65536
        } } : TRUE

\* i32 multiplication: it overflows when dividing the wrapped product by b
\* does not give a back
overflowing_mul(a, b) ==
    CHOOSE out \in { (
        [overflow |->
            CASE a = 0 \/ b = 0 -> FALSE
              [] b = -1 -> a = I32Min
              [] a = -1 -> b = I32Min
              [] b = I32Min -> a # 1
              [] OTHER ->
                   CHOOSE out \in { (
                       quotient # a \/ quotient * b # value
                       ) : quotient \in {
                       IF b > 0 THEN truncating_div(value, b)
                       ELSE -truncating_div(value, -b)
                       } } : TRUE,
         value |-> value]
        ) : value \in {wrapping_mul(a, b)} } : TRUE

(***************************************************************************)
(* environment.rs.  An Environment is [store, outer]: store is a function  *)
(* from the bound names to their values, outer is <<>> (None) or <<a>>,    *)
(* the address of the shared cell Rc<RefCell<Environment>> of the outer    *)
(* scope.  The cells are the elements of the sequence heap; Rc::new        *)
(* appends one.  Option<Object> is a sequence of length 0 or 1.            *)
(***************************************************************************)
\* Environment::new
EnvironmentNew == [store |-> <<>>, outer |-> <<>>]

\* Environment::create_enclosed_environment
create_enclosed_environment(outer) == [store |-> <<>>, outer |-> <<outer>>]

RECURSIVE get_outer_first(_, _, _)
\* A lookup that asks the outer scopes before the local store.
get_outer_first(cells, env, name) ==
    LET up == IF cells[env].outer # <<>>
              THEN get_outer_first(cells, cells[env].outer[1], name)
              ELSE <<>>
    IN  IF up # <<>> THEN up
        ELSE IF name \in DOMAIN cells[env].store
             THEN <<cells[env].store[name]>>
             ELSE <<>>

RECURSIVE get(_, _, _)
\* Environment::get on the cell env.borrow()
get(cells, env, name) ==
    IF name \in DOMAIN cells[env].store
    THEN <<cells[env].store[name]>>
    ELSE IF cells[env].outer # <<>>
         THEN get(cells, cells[env].outer[1], name)
         ELSE <<>>

RECURSIVE set_where_bound(_, _, _, _)
\* An assignment: it overwrites the innermost binding of the name on the
\* chain and inserts locally only when no scope binds the name.
set_where_bound(cells, env, name, value) ==
    IF \/ name \in DOMAIN cells[env].store
       \/ cells[env].outer = <<>>
       \/ get(cells, cells[env].outer[1], name) = <<>>
    THEN [cells EXCEPT ![env].store = (name :> value) @@ @]
    ELSE set_where_bound(cells, cells[env].outer[1], name, value)

\* Environment::set on the cell env.borrow_mut()
set(cells, env, name, value) ==
    [cells EXCEPT ![env].store = (name :> value) @@ @]

(***************************************************************************)
(* evaluator.rs.  A machine m is [heap, executed, depth, overflow_checks]: *)
(* the cells, the steps taken so far, the number of apply_function frames  *)
(* on the stack and the build.  A Result is Ok with an object, Err with an *)
(* EvaluatorError, or a panic; each carries the machine it leaves.         *)
(***************************************************************************)
\* The number of nested calls the host stack holds
MaxDepth == 3

EvalOk(object, m) == [status |-> "Ok", object |-> object, m |-> m]

EvalErr(error, m) ==
    [status |-> "Err", error |-> error,
     m |-> [m EXCEPT !.executed = Append(@, [event |-> "error", error |-> error])]]

EvalPanic(message, m) == [status |-> "Panic", message |-> message, m |-> m]

\* A step of the evaluation, appended to the record of the steps taken
Step(m, event) == [m EXCEPT !.executed = Append(@, event)]

\* Rc::new(RefCell::new(environment)): the machine with the new cell
RcNew(m, environment) == [m EXCEPT !.heap = Append(@, environment)]

\* An i32 result: a panic when it overflows in a build with overflow checks
I32Result(r, m) ==
    IF r.overflow /\ m.overflow_checks
    THEN EvalPanic("arithmetic overflow", m)
    ELSE EvalOk(ObjInteger(r.value), m)

\* i32 division: the quotient truncated toward zero
I32Div(left, right, m) ==
    IF right = 0 THEN EvalPanic("attempt to divide by zero", m)
    ELSE IF left = I32Min /\ right = -1
         THEN EvalPanic("attempt to divide with overflow", m)
         ELSE EvalOk(ObjInteger(
                  CASE right > 0 -> truncating_div(left, right)
                    [] right = I32Min -> IF left = I32Min THEN 1 ELSE 0
                    [] OTHER -> -truncating_div(left, -right)), m)

\* Evaluator::eval_integer_infix_expression
eval_integer_infix_expression(left, operator, right, m) ==
    CASE operator = "Plus" -> I32Result(overflowing_add(left, right), m)
      [] operator = "Minus" -> I32Result(overflowing_sub(left, right), m)
      [] operator = "Asterisk" -> I32Result(overflowing_mul(left, right), m)
      [] operator = "Slash" -> I32Div(left, right, m)
      [] operator = "LessThan" -> EvalOk(ObjBoolean(left < right), m)
      [] operator = "GreaterThan" -> EvalOk(ObjBoolean(left > right), m)
      [] operator = "Equal" -> EvalOk(ObjBoolean(left = right), m)
      [] operator = "NotEqual" -> EvalOk(ObjBoolean(left # right), m)

\* A Boolean arm that reports an operator it does not know as a type mismatch.
eval_boolean_infix_expression_mismatch(left, operator, right, m) ==
    CASE operator = "Equal" -> EvalOk(ObjBoolean(left = right), m)
      [] operator = "NotEqual" -> EvalOk(ObjBoolean(left # right), m)
      [] OTHER -> EvalErr([error |-> "TypeMissMatch",
                           left |-> ObjBoolean(left), operator |-> operator,
                           right |-> ObjBoolean(right)], m)

\* Evaluator::eval_boolean_infix_expression
eval_boolean_infix_expression(left, operator, right, m) ==
    CASE operator = "Equal" -> EvalOk(ObjBoolean(left = right), m)
      [] operator = "NotEqual" -> EvalOk(ObjBoolean(left # right), m)
      [] OTHER -> EvalErr([error |-> "UnknowInfixOperator",
                           left |-> ObjBoolean(left), operator |-> operator,
                           right |-> ObjBoolean(right)], m)

\* Evaluator::eval_infix_expression
eval_infix_expression(left, operator, right, m0) ==
    CHOOSE out \in { (
        CASE left.type = "Integer" /\ right.type = "Integer" ->
                 eval_integer_infix_expression(left.integer, operator, right.integer, m)
          [] left.type = "Boolean" /\ right.type = "Boolean" ->
                 eval_boolean_infix_expression(left.boolean, operator, right.boolean, m)
          [] OTHER -> EvalErr([error |-> "TypeMissMatch", left |-> left,
                               operator |-> operator, right |-> right], m)
        ) : m \in {
        Step(m0, [event |-> "infix", left |-> left, operator |-> operator,
                  right |-> right])
        } } : TRUE

\* Evaluator::eval_exclamation_operator
eval_exclamation_operator(object, m) ==
    CASE object.type = "Boolean" -> EvalOk(ObjBoolean(~object.boolean), m)
      [] object.type = "Null" -> EvalOk(ObjBoolean(TRUE), m)
      [] OTHER -> EvalOk(ObjBoolean(FALSE), m)

\* A minus that takes a Boolean as the number 0 or 1.
eval_minus_prefix_operator_numeric(object, m) ==
    CASE object.type = "Integer" -> I32Result(overflowing_neg(object.integer), m)
      [] object.type = "Boolean" ->
             EvalOk(ObjInteger(IF object.boolean THEN -1 ELSE 0), m)
      [] OTHER -> EvalErr([error |-> "UnknowPrefixOperator", operator |-> "Minus",
                           right |-> object], m)

\* Evaluator::eval_minus_prefix_operator
eval_minus_prefix_operator(object, m) ==
    IF object.type = "Integer"
    THEN I32Result(overflowing_neg(object.integer), m)
    ELSE EvalErr([error |-> "UnknowPrefixOperator", operator |-> "Minus",
                  right |-> object], m)

\* Evaluator::eval_prefix_expression
eval_prefix_expression(operator, object, m0) ==
    CHOOSE out \in { (
        CASE operator = "Exclamation" -> eval_exclamation_operator(object, m)
          [] operator = "Minus" -> eval_minus_prefix_operator(object, m)
        ) : m \in {
        Step(m0, [event |-> "prefix", operator |-> operator, object |-> object])
        } } : TRUE

\* A function literal that captures a copy of the environment as it is now.
eval_function_expression_by_copy(expression, env, m) ==
    CHOOSE out \in { (
        EvalOk(ObjFunction(expression.parameters, expression.body,
                           create_enclosed_environment(Len(copied.heap))), copied)
        ) : copied \in {RcNew(m, m.heap[env])} } : TRUE

\* Evaluator::eval_expression on ast::Expression::Function
eval_function_expression(expression, env, m) ==
    EvalOk(ObjFunction(expression.parameters, expression.body,
                       create_enclosed_environment(env)), m)

\* The machine when eval_statement is entered
Executing(statement, env, m0) ==
    Step(m0, [event |-> "statement", statement |-> statement,
              env |-> env, depth |-> m0.depth])

\* The machine when eval_expression is entered
Evaluating(expression, env, m0) ==
    Step(m0, [event |-> "expression", expression |-> expression, env |-> env])

RECURSIVE eval_statement(_, _, _)
RECURSIVE eval_statements_loop(_, _, _, _, _, _)
RECURSIVE eval_expression(_, _, _)
RECURSIVE eval_expressions_loop(_, _, _, _, _)
RECURSIVE bind_parameters(_, _, _, _, _)
RECURSIVE bind_parameters_outer(_, _, _, _, _)
RECURSIVE eval_expressions_loop_reversed(_, _, _, _, _)

\* A loop that goes on to the next statement when a statement fails.
eval_statements_loop_lenient(statements, i, is_root, env, object, m) ==
    IF i > Len(statements) THEN EvalOk(object, m)
    ELSE CHOOSE out \in { (
             IF r.status = "Err"
             THEN eval_statements_loop(statements, i + 1, is_root, env, object, r.m)
             ELSE IF r.status # "Ok" THEN r
             ELSE IF r.object.type = "ReturnValue"
                  THEN IF is_root
                       THEN EvalOk(r.object.object, r.m)
                       ELSE EvalOk(ObjReturnValue(r.object.object), r.m)
                  ELSE eval_statements_loop(statements, i + 1, is_root, env,
                                            r.object, r.m)
             ) : r \in {eval_statement(statements[i], env, m)} } : TRUE

\* The for loop of eval_statements from the i-th statement on
eval_statements_loop(statements, i, is_root, env, object, m) ==
    IF i > Len(statements) THEN EvalOk(object, m)
    ELSE CHOOSE out \in { (
             IF r.status # "Ok" THEN r
             ELSE IF r.object.type = "ReturnValue"
                  THEN IF is_root
                       THEN EvalOk(r.object.object, r.m)
                       ELSE EvalOk(ObjReturnValue(r.object.object), r.m)
                  ELSE eval_statements_loop(statements, i + 1, is_root, env,
                                            r.object, r.m)
             ) : r \in {eval_statement(statements[i], env, m)} } : TRUE

\* Evaluator::eval_statements
eval_statements(statements, is_root, env, m) ==
    eval_statements_loop(statements, 1, is_root, env, ObjNull, m)

\* Evaluator::eval
eval(root, env, m) == eval_statements(root.statements, TRUE, env, m)

\* A let that yields the value it binds.
eval_statement_let_value(statement, env, m0) ==
        CASE statement.kind = "Let" ->
                 CHOOSE out \in { (
                     IF value.status # "Ok" THEN value
                     ELSE EvalOk(value.object,
                              Step([value.m EXCEPT !.heap =
                                        set(@, env, statement.identifier.name,
                                            value.object)],
                                   [event |-> "let", env |-> env,
                                    name |-> statement.identifier.name,
                                    object |-> value.object]))
                     ) : value \in {
                     eval_expression(statement.value, env,
                             Executing(statement, env, m0))
                     } } : TRUE
          [] statement.kind = "Return" ->
                 CHOOSE out \in { (
                     IF ret_val.status # "Ok" THEN ret_val
                     ELSE EvalOk(ObjReturnValue(ret_val.object),
                                 Step(ret_val.m, [event |-> "return",
                                                  object |-> ret_val.object,
                                                  depth |-> m0.depth]))
                     ) : ret_val \in {
                     eval_expression(statement.expression, env,
                             Executing(statement, env, m0))
                     } } : TRUE
          [] statement.kind = "Expression" ->
                 eval_expression(statement.expression, env,
                         Executing(statement, env, m0))
          [] statement.kind = "Block" ->
                 eval_statements(statement.statements, FALSE, env,
                         Executing(statement, env, m0))

\* A let that binds its name to Null when its value expression fails.
eval_statement_binding_null(statement, env, m0) ==
        CASE statement.kind = "Let" ->
                 CHOOSE out \in { (
                     IF value.status = "Err"
                     THEN [value EXCEPT !.m.heap =
                               set(@, env, statement.identifier.name, ObjNull)]
                     ELSE IF value.status # "Ok" THEN value
                     ELSE EvalOk(ObjNull,
                              Step([value.m EXCEPT !.heap =
                                        set(@, env, statement.identifier.name,
                                            value.object)],
                                   [event |-> "let", env |-> env,
                                    name |-> statement.identifier.name,
                                    object |-> value.object]))
                     ) : value \in {
                     eval_expression(statement.value, env,
                             Executing(statement, env, m0))
                     } } : TRUE
          [] statement.kind = "Return" ->
                 CHOOSE out \in { (
                     IF ret_val.status # "Ok" THEN ret_val
                     ELSE EvalOk(ObjReturnValue(ret_val.object),
                                 Step(ret_val.m, [event |-> "return",
                                                  object |-> ret_val.object,
                                                  depth |-> m0.depth]))
                     ) : ret_val \in {
                     eval_expression(statement.expression, env,
                             Executing(statement, env, m0))
                     } } : TRUE
          [] statement.kind = "Expression" ->
                 eval_expression(statement.expression, env,
                         Executing(statement, env, m0))
          [] statement.kind = "Block" ->
                 eval_statements(statement.statements, FALSE, env,
                         Executing(statement, env, m0))

\* Evaluator::eval_statement
eval_statement(statement, env, m0) ==
        CASE statement.kind = "Let" ->
                 IF statement.identifier.kind # "Identifier"
                 THEN EvalPanic("unreachable", Executing(statement, env, m0))
                 ELSE CHOOSE out \in { (
                          IF value.status # "Ok" THEN value
                          ELSE EvalOk(ObjNull,
                                   Step([value.m EXCEPT !.heap =
                                             set(@, env, statement.identifier.name,
                                                 value.object)],
                                        [event |-> "let", env |-> env,
                                         name |-> statement.identifier.name,
                                         object |-> value.object]))
                          ) : value \in {
                          eval_expression(statement.value, env,
                                  Executing(statement, env, m0))
                          } } : TRUE
          [] statement.kind = "Return" ->
                 CHOOSE out \in { (
                     IF ret_val.status # "Ok" THEN ret_val
                     ELSE EvalOk(ObjReturnValue(ret_val.object),
                                 Step(ret_val.m, [event |-> "return",
                                                  object |-> ret_val.object,
                                                  depth |-> m0.depth]))
                     ) : ret_val \in {
                     eval_expression(statement.expression, env,
                             Executing(statement, env, m0))
                     } } : TRUE
          [] statement.kind = "Expression" ->
                 eval_expression(statement.expression, env,
                         Executing(statement, env, m0))
          [] statement.kind = "Block" ->
                 eval_statements(statement.statements, FALSE, env,
                         Executing(statement, env, m0))

\* An if that evaluates its block in a new environment enclosed by env.
eval_if_expression_scoped(condition, consequence, alternative, env, m) ==
    CHOOSE out \in { (
        IF is_truthly(condition)
        THEN eval_statement(consequence, Len(scoped.heap), scoped)
        ELSE IF alternative # <<>>
             THEN eval_statement(alternative[1], Len(scoped.heap), scoped)
             ELSE EvalOk(ObjNull, m)
        ) : scoped \in {RcNew(m, create_enclosed_environment(env))} } : TRUE

\* Evaluator::eval_if_expression
eval_if_expression(condition, consequence, alternative, env, m) ==
    IF is_truthly(condition)
    THEN eval_statement(consequence, env, m)
    ELSE IF alternative # <<>>
         THEN eval_statement(alternative[1], env, m)
         ELSE EvalOk(ObjNull, m)

\* A loop that evaluates the expressions from the last to the first.
eval_expressions_loop_reversed(expressions, i, env, objects, m) ==
    IF i > Len(expressions)
    THEN [status |-> "Ok", objects |-> objects, m |-> m]
    ELSE CHOOSE out \in { (
             IF evaluated.status # "Ok" THEN evaluated
             ELSE eval_expressions_loop_reversed(expressions, i + 1, env,
                                        <<evaluated.object>> \o objects,
                                        evaluated.m)
             ) : evaluated \in {
             eval_expression(expressions[Len(expressions) + 1 - i], env, m)
             } } : TRUE

\* The for loop of eval_expressions from the i-th expression on
eval_expressions_loop(expressions, i, env, objects, m) ==
    IF i > Len(expressions)
    THEN [status |-> "Ok", objects |-> objects, m |-> m]
    ELSE CHOOSE out \in { (
             IF evaluated.status # "Ok" THEN evaluated
             ELSE eval_expressions_loop(expressions, i + 1, env,
                                        Append(objects, evaluated.object),
                                        evaluated.m)
             ) : evaluated \in {eval_expression(expressions[i], env, m)} } : TRUE

\* Evaluator::eval_expressions
eval_expressions(expressions, env, m) ==
    eval_expressions_loop(expressions, 1, env, <<>>, m)

\* A loop that binds the parameters in the environment the function was
\* defined in.
bind_parameters_outer(parameters, args, i, new_env, m) ==
    IF i > Len(parameters) \/ i > Len(args)
    THEN [status |-> "Ok", m |-> m]
    ELSE IF parameters[i].kind # "Identifier"
         THEN EvalPanic("unreachable", m)
         ELSE bind_parameters_outer(parameters, args, i + 1, new_env,
                  [m EXCEPT !.heap = set(@, m.heap[m.heap[new_env].outer[1]].outer[1],
                                         parameters[i].name, args[i])])

\* The for loop of apply_function over parameters.iter().zip(args.iter())
bind_parameters(parameters, args, i, new_env, m) ==
    IF i > Len(parameters) \/ i > Len(args)
    THEN [status |-> "Ok", m |-> m]
    ELSE IF parameters[i].kind # "Identifier"
         THEN EvalPanic("unreachable", m)
         ELSE bind_parameters(parameters, args, i + 1, new_env,
                  [m EXCEPT !.heap = set(@, new_env, parameters[i].name, args[i])])

\* The machine when apply_function is entered
Applying(object, args, m0) ==
    Step(m0, [event |-> "apply", object |-> object, args |-> args,
              depth |-> m0.depth + 1, cells |-> m0.heap])

\* The machine after Rc::new(RefCell::new(function.environment)) and the
\* Rc::new of the environment that it encloses
Enclosed(object, m) ==
    RcNew(RcNew(m, object.environment),
          create_enclosed_environment(Len(m.heap) + 1))

\* The address of new_env, the second of the two cells
NewEnv(m0) == Len(m0.heap) + 2

\* A call that yields Null when the callee is no function.
apply_function_lenient(object, args, m0) ==
    IF object.type # "Function" THEN EvalOk(ObjNull, Applying(object, args, m0))
    ELSE IF m0.depth >= MaxDepth
    THEN EvalPanic("stack overflow", Applying(object, args, m0))
    ELSE
    CHOOSE out \in { (
        IF bound.status # "Ok" THEN [bound EXCEPT !.m.depth = m0.depth]
        ELSE
    CHOOSE out \in { (
    CHOOSE out \in { (
        IF evaluated.status # "Ok" THEN [evaluated EXCEPT !.m = m3]
        ELSE
    CHOOSE out \in { (
        EvalOk(yielded, Step(m3, [event |-> "applied", object |-> yielded,
                                  depth |-> m0.depth + 1,
                                  cells |-> m3.heap]))
        ) : yielded \in {
        IF evaluated.object.type = "ReturnValue"
        THEN evaluated.object.object
        ELSE evaluated.object
        } } : TRUE
        ) : m3 \in {[evaluated.m EXCEPT !.depth = m0.depth]} } : TRUE
        ) : evaluated \in {
        eval_statement(object.body, NewEnv(m0),
                       Step(bound.m, [event |-> "bound", env |-> NewEnv(m0),
                                      cells |-> bound.m.heap]))
        } } : TRUE
        ) : bound \in {
        bind_parameters(object.parameters, args, 1, NewEnv(m0),
                        [Enclosed(object, Applying(object, args, m0))
                            EXCEPT !.depth = @ + 1])
        } } : TRUE

\* Evaluator::apply_function
apply_function(object, args, m0) ==
    IF object.type # "Function" THEN EvalPanic("unreachable",
            Applying(object, args, m0))
    ELSE IF m0.depth >= MaxDepth
    THEN EvalPanic("stack overflow", Applying(object, args, m0))
    ELSE
    CHOOSE out \in { (
        IF bound.status # "Ok" THEN [bound EXCEPT !.m.depth = m0.depth]
        ELSE
    CHOOSE out \in { (
    CHOOSE out \in { (
        IF evaluated.status # "Ok" THEN [evaluated EXCEPT !.m = m3]
        ELSE
    CHOOSE out \in { (
        EvalOk(yielded, Step(m3, [event |-> "applied", object |-> yielded,
                                  depth |-> m0.depth + 1,
                                  cells |-> m3.heap]))
        ) : yielded \in {
        IF evaluated.object.type = "ReturnValue"
        THEN evaluated.object.object
        ELSE evaluated.object
        } } : TRUE
        ) : m3 \in {[evaluated.m EXCEPT !.depth = m0.depth]} } : TRUE
        ) : evaluated \in {
        eval_statement(object.body, NewEnv(m0),
                       Step(bound.m, [event |-> "bound", env |-> NewEnv(m0),
                                      cells |-> bound.m.heap]))
        } } : TRUE
        ) : bound \in {
        bind_parameters(object.parameters, args, 1, NewEnv(m0),
                        [Enclosed(object, Applying(object, args, m0))
                            EXCEPT !.depth = @ + 1])
        } } : TRUE

\* An evaluation that takes the right operand of an infix operator first.
eval_expression_right_first(expression, env, m0) ==
    CASE expression.kind = "Identifier" ->
             CHOOSE out \in { (
                 IF found # <<>> THEN EvalOk(found[1], Evaluating(expression, env, m0))
                 ELSE EvalErr([error |-> "NotFoundIdentifier",
                               identifier |-> expression.name],
                                       Evaluating(expression, env, m0))
                 ) : found \in {
                 get(Evaluating(expression, env, m0).heap, env, expression.name)
                 } } : TRUE
      [] expression.kind = "Integer" -> EvalOk(ObjInteger(expression.integer),
              Evaluating(expression, env, m0))
      [] expression.kind = "Boolean" -> EvalOk(ObjBoolean(expression.boolean),
              Evaluating(expression, env, m0))
      [] expression.kind = "PrefixExpression" ->
             CHOOSE out \in { (
                 IF object.status # "Ok" THEN object
                 ELSE eval_prefix_expression(expression.operator, object.object,
                                             object.m)
                 ) : object \in {
                 eval_expression(expression.expression, env,
                         Evaluating(expression, env, m0))
                 } } : TRUE
      [] expression.kind = "InfixExpression" ->
             CHOOSE out \in { (
                 IF right.status # "Ok" THEN right ELSE
             CHOOSE out \in { (
                 IF left.status # "Ok" THEN left
                 ELSE eval_infix_expression(left.object, expression.operator,
                                            right.object, left.m)
                 ) : left \in {eval_expression(expression.left, env, right.m)} } : TRUE
                 ) : right \in {
                 eval_expression(expression.right, env, Evaluating(expression, env, m0))
                 } } : TRUE
      [] expression.kind = "IfExpression" ->
             CHOOSE out \in { (
                 IF condition.status # "Ok" THEN condition
                 ELSE eval_if_expression(condition.object, expression.consequence,
                                         expression.alternative, env, condition.m)
                 ) : condition \in {
                 eval_expression(expression.condition, env,
                         Evaluating(expression, env, m0))
                 } } : TRUE
      [] expression.kind = "Function" -> eval_function_expression(expression, env,
              Evaluating(expression, env, m0))
      [] expression.kind = "Call" ->
             CHOOSE out \in { (
                 IF function.status # "Ok" THEN function ELSE
             CHOOSE out \in { (
                 IF args.status # "Ok" THEN args
                 ELSE apply_function(function.object, args.objects, args.m)
                 ) : args \in {
                 eval_expressions(expression.args, env, function.m)
                 } } : TRUE
                 ) : function \in {
                 eval_expression(expression.function, env,
                         Evaluating(expression, env, m0))
                 } } : TRUE
      [] OTHER -> EvalOk(ObjNull, Evaluating(expression, env, m0))

\* Evaluator::eval_expression
eval_expression(expression, env, m0) ==
    CASE expression.kind = "Identifier" ->
             CHOOSE out \in { (
                 IF found # <<>> THEN EvalOk(found[1], Evaluating(expression, env, m0))
                 ELSE EvalErr([error |-> "NotFoundIdentifier",
                               identifier |-> expression.name],
                                       Evaluating(expression, env, m0))
                 ) : found \in {
                 get(Evaluating(expression, env, m0).heap, env, expression.name)
                 } } : TRUE
      [] expression.kind = "Integer" -> EvalOk(ObjInteger(expression.integer),
              Evaluating(expression, env, m0))
      [] expression.kind = "Boolean" -> EvalOk(ObjBoolean(expression.boolean),
              Evaluating(expression, env, m0))
      [] expression.kind = "PrefixExpression" ->
             CHOOSE out \in { (
                 IF object.status # "Ok" THEN object
                 ELSE eval_prefix_expression(expression.operator, object.object,
                                             object.m)
                 ) : object \in {
                 eval_expression(expression.expression, env,
                         Evaluating(expression, env, m0))
                 } } : TRUE
      [] expression.kind = "InfixExpression" ->
             CHOOSE out \in { (
                 IF left.status # "Ok" THEN left ELSE
             CHOOSE out \in { (
                 IF right.status # "Ok" THEN right
                 ELSE eval_infix_expression(left.object, expression.operator,
                                            right.object, right.m)
                 ) : right \in {eval_expression(expression.right, env, left.m)} } : TRUE
                 ) : left \in {
                 eval_expression(expression.left, env, Evaluating(expression, env, m0))
                 } } : TRUE
      [] expression.kind = "IfExpression" ->
             CHOOSE out \in { (
                 IF condition.status # "Ok" THEN condition
                 ELSE eval_if_expression(condition.object, expression.consequence,
                                         expression.alternative, env, condition.m)
                 ) : condition \in {
                 eval_expression(expression.condition, env,
                         Evaluating(expression, env, m0))
                 } } : TRUE
      [] expression.kind = "Function" -> eval_function_expression(expression, env,
              Evaluating(expression, env, m0))
      [] expression.kind = "Call" ->
             CHOOSE out \in { (
                 IF function.status # "Ok" THEN function ELSE
             CHOOSE out \in { (
                 IF args.status # "Ok" THEN args
                 ELSE apply_function(function.object, args.objects, args.m)
                 ) : args \in {
                 eval_expressions(expression.args, env, function.m)
                 } } : TRUE
                 ) : function \in {
                 eval_expression(expression.function, env,
                         Evaluating(expression, env, m0))
                 } } : TRUE
      [] OTHER -> EvalOk(ObjNull, Evaluating(expression, env, m0))

(***************************************************************************)
(* main.rs: the read-eval-print loop.  One environment lives as long as    *)
(* the loop; each line read is lexed, parsed and evaluated in it.          *)
(***************************************************************************)
\* The number of lines the loop reads
MaxLines == 2

\* The address of the environment that main creates
Global == 1

ReturnLines ==
    { <<"return", "1", ";", "2", ";">>,
      <<"if", "(", "true", ")", "{", "if", "(", "true", ")", "{", "return", "1", ";",
        "}", "2", ";", "}", "3", ";">>,
      <<"if", "(", "false", ")", "{", "1", "}", "else", "{", "return", "2", ";", "}",
        "let", "z", "=", "3", ";">>,
      <<"let", "a", "=", "if", "(", "true", ")", "{", "return", "1", ";", "}", ";",
        "2", ";">>,
      <<"1", "+", "if", "(", "true", ")", "{", "return", "2", ";", "}", ";">>,
      <<"return", "if", "(", "true", ")", "{", "return", "1", ";", "}", ";">> }

CallLines ==
    { <<"let", "k", "=", "fn", "(", ")", "{", "return", "1", ";", "2", ";", "}", ";",
        "k", "(", ")", ";", "3", ";">>,
      <<"let", "k", "=", "fn", "(", "c", ")", "{", "if", "(", "c", ")", "{", "if", "(",
        "c", ")", "{", "return", "1", ";", "}", "2", ";", "}", "3", ";", "}", ";",
        "let", "r", "=", "k", "(", "true", ")", ";", "r", ";">>,
      <<"let", "k", "=", "fn", "(", ")", "{", "let", "a", "=", "if", "(", "true", ")",
        "{", "return", "1", ";", "}", ";", "2", ";", "}", ";", "k", "(", ")", ";">>,
      <<"fn", "(", "c", ")", "{", "c", "}", "(", "if", "(", "true", ")", "{",
        "return", "1", ";", "}", ")", ";">>,
      <<"let", "r", "=", "fn", "(", ")", "{", "r", "(", ")", "}", ";", "r", "(", ")", ";">> }

ClosureLines ==
    { <<"let", "x", "=", "1", ";">>,
      <<"let", "x", "=", "2", ";">>,
      <<"let", "f", "=", "fn", "(", ")", "{", "x", "}", ";">>,
      <<"let", "g", "=", "fn", "(", ")", "{", "x", "}", ";">>,
      <<"f", "(", ")", ";">>,
      <<"g", "(", ")", ";">>,
      <<"let", "f", "=", "fn", "(", ")", "{", "x", "}", ";", "let", "x", "=", "3", ";",
        "f", "(", ")", ";">>,
      <<"let", "x", "=", "1", ";", "let", "f", "=", "fn", "(", ")", "{", "x", "}", ";",
        "let", "x", "=", "2", ";", "let", "g", "=", "fn", "(", ")", "{", "x", "}", ";">>,
      <<"let", "d", "=", "fn", "(", "n", ")", "{", "if", "(", "n", "<", "1", ")", "{",
        "0", "}", "else", "{", "d", "(", "n", "-", "1", ")", "}", "}", ";",
        "d", "(", "2", ")", ";">>,
      <<"let", "addN", "=", "fn", "(", "n", ")", "{", "fn", "(", "x", ")", "{", "x",
        "+", "n", "}", "}", ";", "let", "add5", "=", "addN", "(", "5", ")", ";",
        "add5", "(", "10", ")", ";">> }

ErrorLines ==
    { <<"let", "x", "1">>,
      <<"foo">> }

Lines == ReturnLines \cup CallLines \cup ClosureLines \cup ErrorLines

Init ==
    /\ pc = "prompt"
    /\ heap = <<EnvironmentNew>>
    /\ input = None /\ code = None /\ parsed = None
    /\ result = None /\ executed = <<>> /\ lines = 0
    /\ overflow_checks \in BOOLEAN

\* One turn of the loop of main: read a line, parse it, evaluate the program
\* in the environment and print the value or the error.  A panic ends the run.
ReadEvalPrint(line) ==
    /\ pc = "prompt"
    /\ lines < MaxLines
    /\ lines' = lines + 1
    /\ input' = line
    /\ parsed' = parse_program(Lexer(line))
    /\ IF ~parsed'.ok
       THEN /\ result' = [status |-> "ParserError", error |-> parsed'.error]
            /\ UNCHANGED <<heap, pc>>
            /\ executed' = <<>>
       ELSE \E r \in {eval(parsed'.value, Global,
                             [heap |-> heap, executed |-> <<>>, depth |-> 0,
                              overflow_checks |-> overflow_checks])} :
                /\ heap' = r.m.heap
                /\ executed' = r.m.executed
                /\ result' = [f \in DOMAIN r \ {"m"} |-> r[f]]
                /\ pc' = IF r.status = "Panic" THEN "aborted" ELSE "prompt"
    /\ UNCHANGED <<code, overflow_checks>>

Next == \E line \in Lines : ReadEvalPrint(line)

Spec == Init /\ [][Next]_vars

(***************************************************************************)
(* Properties of the evaluator                                             *)
(***************************************************************************)
\* The indices of the steps of one kind in the record of the last evaluation
StepsOf(event) == { i \in 1..Len(executed) : executed[i].event = event }

\* The first step of a kind
FirstOf(event) == CHOOSE i \in StepsOf(event) : \A j \in StepsOf(event) : i <= j

\* The last line was evaluated to the end (a value or an EvaluatorError)
Evaluated == lines > 0 /\ pc = "prompt" /\ parsed.ok

\* C5: a Return executed outside any function body ends the program: no
\* statement is executed after it, and eval yields the returned value.
C5_ReturnEndsProgram ==
    (Evaluated /\ StepsOf("apply") = {} /\ StepsOf("return") # {}) =>
        LET i == FirstOf("return")
        IN  /\ \A j \in StepsOf("statement") : j < i
            /\ result.status = "Ok"
            /\ result.object = executed[i].object

\* C6: a Return executed inside a function body ends that call: the next step
\* is the call yielding the returned value, unwrapped; and a program that
\* executes no Return outside a function body runs every one of its statements.
C6_ReturnEndsCall ==
    Evaluated =>
        /\ \A i \in StepsOf("return") :
             executed[i].depth >= 1 =>
                /\ i < Len(executed)
                /\ executed[i + 1].event = "applied"
                /\ executed[i + 1].depth = executed[i].depth
                /\ executed[i + 1].object = executed[i].object
                /\ executed[i].object.type # "ReturnValue"
        /\ (result.status = "Ok"
            /\ \A i \in StepsOf("return") : executed[i].depth >= 1) =>
               \A k \in 1..Len(parsed.value.statements) :
                  \E i \in StepsOf("statement") :
                     /\ executed[i].depth = 0
                     /\ executed[i].statement = parsed.value.statements[k]

\* C7: no environment binds a name to a ReturnValue, no call argument and no
\* operand is one, and neither eval nor a call yields one.
C7_ReturnValueNotFirstClass ==
    lines > 0 =>
        /\ \A a \in 1..Len(heap) : \A n \in DOMAIN heap[a].store :
              heap[a].store[n].type # "ReturnValue"
        /\ \A i \in StepsOf("apply") : \A k \in 1..Len(executed[i].args) :
              executed[i].args[k].type # "ReturnValue"
        /\ \A i \in StepsOf("infix") :
              /\ executed[i].left.type # "ReturnValue"
              /\ executed[i].right.type # "ReturnValue"
        /\ \A i \in StepsOf("prefix") : executed[i].object.type # "ReturnValue"
        /\ \A i \in StepsOf("applied") : executed[i].object.type # "ReturnValue"
        /\ (parsed.ok /\ result.status = "Ok") => result.object.type # "ReturnValue"

\* The program ends with the statement `name();`
EndsWithCallOf(program, name) ==
    /\ program.statements # <<>>
    /\ program.statements[Len(program.statements)] =
           StmtExpression(ExprCall(ExprIdentifier(name), <<>>))

\* What a function created at top level with the body { x } must yield now
SeenNow ==
    IF "x" \in DOMAIN heap[Global].store
    THEN [status |-> "Ok", object |-> heap[Global].store["x"]]
    ELSE [status |-> "Err",
          error |-> [error |-> "NotFoundIdentifier", identifier |-> "x"]]

\* The outcome of evaluating `name()` at top level in the state as it is
CallNow(name) ==
    LET r == eval_expression(ExprCall(ExprIdentifier(name), <<>>), Global,
                             [heap |-> heap, executed |-> <<>>, depth |-> 0,
                              overflow_checks |-> overflow_checks])
    IN  [f \in DOMAIN r \ {"m"} |-> r[f]]

\* The functions f and g, which the lines create at top level with the body { x }
Probes == {"f", "g"}

\* C8: a function sees the bindings its defining environment has at the time
\* of the call: f and g, created at top level before or after x was bound or
\* bound again, both yield the present value of x; a function bound by let
\* calls itself; and the addN example yields 15.
C8_CaptureByReference ==
    Evaluated =>
        /\ \A name \in Probes \cap DOMAIN heap[Global].store : CallNow(name) = SeenNow
        /\ \A name \in Probes :
              (EndsWithCallOf(parsed.value, name) /\ name \in DOMAIN heap[Global].store)
                  => result = SeenNow
        /\ (\E k \in 1..Len(input) : input[k] = "d") =>
              result = [status |-> "Ok", object |-> ObjInteger(0)]
        /\ (\E k \in 1..Len(input) : input[k] = "addN") =>
              result = [status |-> "Ok", object |-> ObjInteger(15)]

\* f was created before x was bound to 3 and its call has yielded 3
C8_Witness ==
    /\ Evaluated
    /\ Len(parsed.value.statements) = 3
    /\ EndsWithCallOf(parsed.value, "f")
    /\ parsed.value.statements[1].kind = "Let"
    /\ parsed.value.statements[1].value.kind = "Function"
    /\ result = [status |-> "Ok", object |-> ObjInteger(3)]

(***************************************************************************)
(* The environment chain as a state machine: scopes are created inside     *)
(* existing ones, names are bound and looked up.                           *)
(***************************************************************************)
\* The number of environments
MaxCells == 2

EnvNames == {"x", "y"}

EnvValues == {ObjInteger(1), ObjInteger(2)}

InitEnvironment ==
    /\ pc = "environment"
    /\ heap = <<EnvironmentNew>>
    /\ input = [op |-> "new"]
    /\ result = None
    /\ code = None /\ parsed = None /\ executed = None /\ lines = 0
    /\ overflow_checks = TRUE

\* Rc::new(RefCell::new(Environment::create_enclosed_environment(outer)))
CreateEnclosed(outer) ==
    /\ Len(heap) < MaxCells
    /\ heap' = Append(heap, create_enclosed_environment(outer))
    /\ input' = [op |-> "create_enclosed_environment", env |-> outer]
    /\ result' = None
    /\ UNCHANGED <<pc, code, parsed, executed, lines, overflow_checks>>

\* env.borrow_mut().set(name, value)
Set(env, name, value) ==
    /\ heap' = set(heap, env, name, value)
    /\ input' = [op |-> "set", env |-> env, name |-> name, value |-> value]
    /\ result' = None
    /\ UNCHANGED <<pc, code, parsed, executed, lines, overflow_checks>>

\* env.borrow().get(name)
Get(env, name) ==
    /\ result' = get(heap, env, name)
    /\ input' = [op |-> "get", env |-> env, name |-> name]
    /\ UNCHANGED <<pc, heap, code, parsed, executed, lines, overflow_checks>>

\* Evaluator::eval_expression on the identifier `name` in the environment env
EvalIdentifier(env, name) ==
    /\ \E r \in {eval_expression(ExprIdentifier(name), env,
                                   [heap |-> heap, executed |-> <<>>, depth |-> 0,
                                    overflow_checks |-> overflow_checks])} :
          result' = [f \in DOMAIN r \ {"m"} |-> r[f]]
    /\ input' = [op |-> "eval_expression", env |-> env, name |-> name]
    /\ UNCHANGED <<pc, heap, code, parsed, executed, lines, overflow_checks>>

NextEnvironment ==
    \/ \E outer \in 1..Len(heap) : CreateEnclosed(outer)
    \/ \E env \in 1..Len(heap), name \in EnvNames, value \in EnvValues :
          Set(env, name, value)
    \/ \E env \in 1..Len(heap), name \in EnvNames : Get(env, name)
    \/ \E env \in 1..Len(heap), name \in EnvNames : EvalIdentifier(env, name)

SpecEnvironment == InitEnvironment /\ [][NextEnvironment]_vars

RECURSIVE Chain(_, _)
\* The environments from env outwards, innermost first
Chain(cells, env) ==
    <<env>> \o (IF cells[env].outer = <<>> THEN <<>>
                ELSE Chain(cells, cells[env].outer[1]))

\* The value of the innermost environment of the chain that binds the name
InnermostBinding(cells, env, name) ==
    LET chain == Chain(cells, env)
        binders == { i \in 1..Len(chain) : name \in DOMAIN cells[chain[i]].store }
    IN  IF binders = {} THEN <<>>
        ELSE LET i == CHOOSE i \in binders : \A j \in binders : i <= j
             IN  <<cells[chain[i]].store[name]>>

\* The step has bound the name to the value in the first scope of the chain
name_bound_here(cells, operation, chain) ==
    /\ operation.name \in DOMAIN cells[chain[1]].store
    /\ cells[chain[1]].store[operation.name] = operation.value

\* C9: set binds the name in the environment it is called on and leaves every
\* environment on its outer chain as it was: a get on any of them returns what
\* it returned before.
C9_SetIsLocal ==
    [][ input'.op = "set" =>
          LET chain == Chain(heap, input'.env)
          IN  /\ name_bound_here(heap', input', chain)
              /\ \A i \in 2..Len(chain) :
                    /\ heap'[chain[i]] = heap[chain[i]]
                    /\ \A n \in EnvNames :
                          get(heap', chain[i], n) = get(heap, chain[i], n)
      ]_vars

\* A name was bound in a scope whose outer scope binds it to another value
C9_Witness ==
    /\ input.op = "set"
    /\ heap[input.env].outer # <<>>
    /\ input.name \in DOMAIN heap[heap[input.env].outer[1]].store
    /\ input.name \in DOMAIN heap[input.env].store
    /\ heap[heap[input.env].outer[1]].store[input.name] # input.value

\* C10: get returns the value of the innermost environment of the chain that
\* binds the name and a miss when none does; the evaluator turns the miss into
\* NotFoundIdentifier with that name.
C10_GetInnermost ==
    /\ input.op = "get" => result = InnermostBinding(heap, input.env, input.name)
    /\ input.op = "eval_expression" =>
          LET found == InnermostBinding(heap, input.env, input.name)
          IN  IF found = <<>>
              THEN result = [status |-> "Err",
                             error |-> [error |-> "NotFoundIdentifier",
                                        identifier |-> input.name]]
              ELSE result = [status |-> "Ok", object |-> found[1]]

\* A name bound in a scope and, to another value, in its outer scope was looked up
C10_Witness ==
    /\ input.op = "get"
    /\ heap[input.env].outer # <<>>
    /\ input.name \in DOMAIN heap[input.env].store
    /\ input.name \in DOMAIN heap[heap[input.env].outer[1]].store
    /\ heap[heap[input.env].outer[1]].store[input.name]
           # heap[input.env].store[input.name]
    /\ result = <<heap[input.env].store[input.name]>>

\* A name bound in no scope of a chain of two was evaluated
C10_WitnessMiss ==
    /\ input.op = "eval_expression"
    /\ heap[input.env].outer # <<>>
    /\ result.status = "Err"

(***************************************************************************)
(* Calls: the loop of main reading lines that define and call functions    *)
(***************************************************************************)
\* Lines that define functions and call them with as many arguments as
\* parameters, with more and with fewer
ArgumentLines ==
    { <<"let", "f", "=", "fn", "(", "a", ",", "b", ")", "{", "a", "-", "b", "}", ";">>,
      <<"f", "(", "1", "+", "1", ",", "2", "*", "2", ")", ";">>,
      <<"f", "(", "f", "(", "5", ",", "1", ")", ",", "f", "(", "1", ",", "5", ")", ")",
        ";">>,
      <<"let", "h", "=", "fn", "(", "a", ")", "{", "fn", "(", "b", ")", "{", "a", "-",
        "b", "}", "}", ";", "h", "(", "5", ")", "(", "3", ")", ";">>,
      <<"fn", "(", "a", ",", "b", ")", "{", "a", "-", "b", "}", "(", "7", ",", "2",
        ",", "9", ")", ";">>,
      <<"if", "(", "1", "<", "2", ")", "{", "fn", "(", "a", ")", "{", "a", "}", "}",
        "(", "3", "+", "4", ")", ";">>,
      <<"let", "k", "=", "fn", "(", "a", ")", "{", "a", "}", ";", "let", "g", "=",
        "fn", "(", "b", ")", "{", "k", "(", "b", "+", "1", ")", "}", ";", "g", "(",
        "1", ")", ";">>,
      <<"let", "y", "=", "9", ";", "let", "p", "=", "fn", "(", "x", ",", "y", ")", "{",
        "y", "}", ";", "p", "(", "2", ")", ";">>,
      <<"let", "q", "=", "fn", "(", "x", ",", "z", ")", "{", "x", ";", "z", "}", ";",
        "q", "(", "2", ")", ";">>,
      <<"fn", "(", "x", ")", "{", "if", "(", "true", ")", "{", "x", "}", "}", "(", ")",
        ";">>,
      <<"f", "(", "zz", ",", "1", ")", ";">>,
      <<"zz", "(", "1", ",", "vv", ")", ";">>,
      <<"f", "(", "1", ",", "2", ")", "(", "3", ")", ";">> }

NextCalls == \E line \in ArgumentLines : ReadEvalPrint(line)

SpecCalls == Init /\ [][NextCalls]_vars

\* The step is the evaluation of the expression in the environment
IsExpressionStep(i, expression, env) ==
    /\ executed[i].event = "expression"
    /\ executed[i].expression = expression
    /\ executed[i].env = env

\* The expression steps of call expressions and the apply steps among the
\* steps i+1 .. k-1
CallsBetween(i, k) ==
    { x \in (i + 1)..(k - 1) :
        executed[x].event = "expression" /\ executed[x].expression.kind = "Call" }

AppliesBetween(i, k) == { x \in (i + 1)..(k - 1) : executed[x].event = "apply" }

\* The step that began the call expression whose apply step is k: the last
\* one before k whose inner calls were all applied
CallOf(k) ==
    CHOOSE i \in 1..(k - 1) :
        /\ executed[i].event = "expression" /\ executed[i].expression.kind = "Call"
        /\ Cardinality(CallsBetween(i, k)) = Cardinality(AppliesBetween(i, k))
        /\ \A j \in (i + 1)..(k - 1) :
              (executed[j].event = "expression" /\ executed[j].expression.kind = "Call")
                  => Cardinality(CallsBetween(j, k)) # Cardinality(AppliesBetween(j, k))

RECURSIVE InOrder(_, _, _, _, _)
\* The expressions from the n-th on are evaluated in env one after the other
\* among the steps j+1 .. k-1
InOrder(expressions, n, env, j, k) ==
    IF n > Len(expressions) THEN TRUE
    ELSE LET found == { x \in (j + 1)..(k - 1) :
                          IsExpressionStep(x, expressions[n], env) }
         IN  /\ found # {}
             /\ InOrder(expressions, n + 1, env,
                        CHOOSE x \in found : \A y \in found : x <= y, k)

\* The number of parameters that get an argument
Bound(object, args) ==
    IF Len(object.parameters) < Len(args) THEN Len(object.parameters) ELSE Len(args)

\* C11: the callee is evaluated first, then the arguments from left to right,
\* all in the environment of the call expression; the body runs in a new
\* environment that encloses a new cell holding the captured environment and
\* binds the i-th parameter to the i-th argument; further arguments bind nothing.
C11_CallOrder ==
    \A k \in StepsOf("apply") :
        LET i == CallOf(k)
            call == executed[i].expression
            object == executed[k].object
            args == executed[k].args
        IN  /\ IsExpressionStep(i + 1, call.function, executed[i].env)
            /\ InOrder(call.args, 1, executed[i].env, i + 1, k)
            /\ Len(args) = Len(call.args)
            /\ (object.type = "Function" /\ executed[k].depth <= MaxDepth) =>
                  LET cells == executed[k + 1].cells
                      new_env == executed[k + 1].env
                  IN  /\ executed[k + 1].event = "bound"
                      /\ new_env = Len(executed[k].cells) + 2
                      /\ Len(cells) = new_env
                      /\ SubSeq(cells, 1, Len(executed[k].cells)) = executed[k].cells
                      /\ cells[new_env].outer = <<new_env - 1>>
                      /\ cells[new_env - 1] = object.environment
                      /\ DOMAIN cells[new_env].store =
                             { object.parameters[n].name : n \in 1..Bound(object,
                                     args) }
                      /\ \A n \in 1..Bound(object, args) :
                             cells[new_env].store[object.parameters[n].name] = args[n]
                      /\ executed[k + 2].event = "statement"
                      /\ executed[k + 2].statement = object.body
                      /\ executed[k + 2].env = new_env

\* A function of two parameters was called with three arguments that were
\* evaluated, and the call has yielded a value
C11_Witness ==
    /\ Evaluated /\ result.status = "Ok"
    /\ \E k \in StepsOf("apply") :
          /\ Len(executed[k].args) = 3
          /\ Len(executed[k].object.parameters) = 2
          /\ executed[k].args[1] # executed[k].args[2]


\* The names of the parameters of the call applied at step k that get no argument
Unbound(k) ==
    { executed[k].object.parameters[n].name :
        n \in (Len(executed[k].args) + 1)..Len(executed[k].object.parameters) }

\* C12: in a call with fewer arguments than parameters, every lookup in the
\* body of a parameter without argument (that the body has not bound itself)
\* fails with NotFoundIdentifier.
C12_MissingArgumentFails ==
    \A k \in StepsOf("apply") :
        (k < Len(executed) /\ executed[k + 1].event = "bound") =>
            \A j \in (k + 2)..Len(executed) :
                ( /\ executed[j].event = "expression"
                  /\ executed[j].expression.kind = "Identifier"
                  /\ executed[j].expression.name \in Unbound(k)
                  /\ executed[j].env = executed[k + 1].env
                  /\ ~\E l \in (k + 2)..j :
                        /\ executed[l].event = "let"
                        /\ executed[l].env = executed[j].env
                        /\ executed[l].name = executed[j].expression.name )
                => /\ j < Len(executed)
                   /\ executed[j + 1].event = "error"
                   /\ executed[j + 1].error =
                          [error |-> "NotFoundIdentifier",
                           identifier |-> executed[j].expression.name]

(***************************************************************************)
(* The operators of the evaluator applied to values: infix and prefix      *)
(* operators on operands of every type, and if on conditions of every type *)
(***************************************************************************)
\* Integers at the ends and in the middle of the range of i32
OperandIntegers == {I32Min, -7, -1, 0, 2, I32Max}

\* Values of every type that an expression can yield
OperandObjects ==
    { ObjInteger(i) : i \in OperandIntegers }
    \cup { ObjBoolean(b) : b \in BOOLEAN }
    \cup { ObjNull,
           ObjFunction(<<ExprIdentifier("x")>>,
                       StmtBlock(<<StmtExpression(ExprIdentifier("x"))>>),
                       create_enclosed_environment(Global)) }

\* The blocks { 1 } and { 2 } of `if (v) { 1 } else { 2 }`
Consequence == StmtBlock(<<StmtExpression(ExprInteger(1))>>)

Alternative == StmtBlock(<<StmtExpression(ExprInteger(2))>>)

InitOperators ==
    /\ pc = "operators"
    /\ heap = <<EnvironmentNew>>
    /\ input = [op |-> "none"]
    /\ result = None /\ executed = <<>>
    /\ code = None /\ parsed = None /\ lines = 0
    /\ overflow_checks \in BOOLEAN

\* The machine before an evaluation
Machine ==
    [heap |-> heap, executed |-> <<>>, depth |-> 0,
     overflow_checks |-> overflow_checks]

\* The outcome of an evaluation without the machine it leaves
Outcome(r) == [f \in DOMAIN r \ {"m"} |-> r[f]]

\* Evaluator::eval_infix_expression on two evaluated operands
EvalInfix(left, operator, right) ==
    /\ pc = "operators" /\ pc' = "applied"
    /\ \E r \in {eval_infix_expression(left, operator, right, Machine)} :
          result' = Outcome(r) /\ executed' = r.m.executed
    /\ input' = [op |-> "infix", left |-> left, operator |-> operator,
                 right |-> right]
    /\ UNCHANGED <<heap, code, parsed, lines, overflow_checks>>

\* Evaluator::eval_prefix_expression on an evaluated operand
EvalPrefix(operator, object) ==
    /\ pc = "operators" /\ pc' = "applied"
    /\ \E r \in {eval_prefix_expression(operator, object, Machine)} :
          result' = Outcome(r) /\ executed' = r.m.executed
    /\ input' = [op |-> "prefix", operator |-> operator, object |-> object]
    /\ UNCHANGED <<heap, code, parsed, lines, overflow_checks>>

\* `!!v`: eval_prefix_expression on the outcome of eval_prefix_expression
EvalNotNot(object) ==
    /\ pc = "operators" /\ pc' = "applied"
    /\ \E inner \in {eval_prefix_expression("Exclamation", object, Machine)} :
          \E r \in {IF inner.status # "Ok" THEN inner
                     ELSE eval_prefix_expression("Exclamation", inner.object,
                                                 inner.m)} :
             result' = Outcome(r) /\ executed' = r.m.executed
    /\ input' = [op |-> "notnot", object |-> object]
    /\ UNCHANGED <<heap, code, parsed, lines, overflow_checks>>

\* Evaluator::eval_if_expression on an evaluated condition
EvalIf(condition, alternative) ==
    /\ pc = "operators" /\ pc' = "applied"
    /\ \E r \in {eval_if_expression(condition, Consequence, alternative, Global,
                                      Machine)} :
          result' = Outcome(r) /\ executed' = r.m.executed
    /\ input' = [op |-> "if", object |-> condition, alternative |-> alternative]
    /\ UNCHANGED <<heap, code, parsed, lines, overflow_checks>>

NextOperators ==
    \/ \E left \in OperandObjects, operator \in InfixTokens,
          right \in OperandObjects : EvalInfix(left, operator, right)
    \/ \E operator \in PrefixTokens, object \in OperandObjects :
          EvalPrefix(operator, object)
    \/ \E object \in OperandObjects : EvalNotNot(object)
    \/ \E object \in OperandObjects, alternative \in {<<>>, <<Alternative>>} :
          EvalIf(object, alternative)

SpecOperators == InitOperators /\ [][NextOperators]_vars

\* The operands of the infix operator of this state
BothInteger == input.left.type = "Integer" /\ input.right.type = "Integer"

BothBoolean == input.left.type = "Boolean" /\ input.right.type = "Boolean"

Arithmetic == {"Plus", "Minus", "Asterisk", "Slash"}

\* The result is a value of the type
Yields(type) == result.status = "Ok" /\ result.object.type = type

\* The result is the error of the kind that carries the two operands of this
\* state and its operator
FailsWith(kind) ==
    result = [status |-> "Err",
              error |-> [error |-> kind, left |-> input.left,
                         operator |-> input.operator, right |-> input.right]]

\* The product of two i32 is not an i32
ProductOutsideI32(l, r) ==
    CASE l = 0 \/ r = 0 -> FALSE
      [] r = I32Min -> l # 1
      [] r = -1 -> l = I32Min
      [] r > 0 -> l > I32Max \div r \/ l < truncating_div(I32Min, r)
      [] OTHER -> l < -(I32Max \div (-r)) \/ l > -truncating_div(I32Min, -r)

\* The arithmetic operation on two i32 has no i32 result in this build: a
\* zero divisor, the quotient of the least i32 by -1, or a sum, difference or
\* product outside i32 where the build checks overflow
Faults(l, operator, r) ==
    CASE operator = "Slash" -> r = 0 \/ (l = I32Min /\ r = -1)
      [] operator = "Plus" ->
             overflow_checks
             /\ ((r > 0 /\ l > I32Max - r) \/ (r < 0 /\ l < I32Min - r))
      [] operator = "Minus" ->
             overflow_checks
             /\ ((r < 0 /\ l > I32Max + r) \/ (r > 0 /\ l < I32Min + r))
      [] operator = "Asterisk" -> overflow_checks /\ ProductOutsideI32(l, r)

\* C13 as stated: for evaluated operands of an infix operator, two Integers
\* give an Integer for + - * / and a Boolean for < > == !=, two Booleans give
\* a Boolean for == and != and the error UnknowInfixOperator for every other
\* operator, and every other pair of operands gives the error TypeMissMatch
\* that carries the two operands and the operator.
C13_InfixTypingAlways ==
    input.op = "infix" =>
        CASE BothInteger ->
                 IF input.operator \in Arithmetic THEN Yields("Integer")
                 ELSE Yields("Boolean")
          [] BothBoolean ->
                 IF input.operator \in {"Equal", "NotEqual"} THEN Yields("Boolean")
                 ELSE FailsWith("UnknowInfixOperator")
          [] OTHER -> FailsWith("TypeMissMatch")

\* C13 amended: as C13, except that + - * / on two Integers give an Integer
\* only when the operation does not fault; a zero divisor, the least i32
\* divided by -1, and in a build with overflow checks a sum, difference or
\* product outside i32, end the evaluation in a fatal fault.
C13_InfixTyping ==
    input.op = "infix" =>
        CASE BothInteger ->
                 IF input.operator \in Arithmetic
                 THEN IF Faults(input.left.integer, input.operator,
                                input.right.integer)
                      THEN result.status = "Panic"
                      ELSE Yields("Integer")
                 ELSE Yields("Boolean")
          [] BothBoolean ->
                 IF input.operator \in {"Equal", "NotEqual"} THEN Yields("Boolean")
                 ELSE FailsWith("UnknowInfixOperator")
          [] OTHER -> FailsWith("TypeMissMatch")

\* true < false has been evaluated and is the error UnknowInfixOperator
C13_Witness ==
    /\ input.op = "infix"
    /\ input.left = ObjBoolean(TRUE) /\ input.right = ObjBoolean(FALSE)
    /\ input.operator = "LessThan"
    /\ FailsWith("UnknowInfixOperator")

\* C14 as stated: prefix minus on an Integer n yields Integer(-n), and on any
\* other value it fails with UnknowPrefixOperator carrying Minus and the value.
C14_MinusAlways ==
    (input.op = "prefix" /\ input.operator = "Minus") =>
        IF input.object.type = "Integer"
        THEN /\ Yields("Integer")
             /\ input.object.integer # I32Min
             /\ result.object.integer = -input.object.integer
        ELSE result = [status |-> "Err",
                       error |-> [error |-> "UnknowPrefixOperator",
                                  operator |-> "Minus", right |-> input.object]]

\* C14 amended: prefix minus on an Integer n other than the least i32 yields
\* Integer(-n); on the least i32, whose negation is no i32, it ends in a fatal
\* fault in a build with overflow checks and yields the least i32 in a build
\* without; on any other value it fails with UnknowPrefixOperator carrying
\* Minus and the value.
C14_Minus ==
    (input.op = "prefix" /\ input.operator = "Minus") =>
        CASE input.object.type # "Integer" ->
                 result = [status |-> "Err",
                           error |-> [error |-> "UnknowPrefixOperator",
                                      operator |-> "Minus",
                                      right |-> input.object]]
          [] input.object.type = "Integer" /\ input.object.integer = I32Min ->
                 IF overflow_checks THEN result.status = "Panic"
                 ELSE Yields("Integer") /\ result.object.integer = I32Min
          [] OTHER ->
                 Yields("Integer") /\ result.object.integer = -input.object.integer

\* -true has been evaluated and is the error UnknowPrefixOperator
C14_Witness ==
    /\ input.op = "prefix" /\ input.operator = "Minus"
    /\ input.object = ObjBoolean(TRUE)
    /\ result.status = "Err" /\ result.error.error = "UnknowPrefixOperator"

\* The truthiness rule: false and null are falsy, every other value is truthy
Falsy(v) == v = ObjBoolean(FALSE) \/ v = ObjNull

\* The block has been evaluated
Ran(block) ==
    \E i \in 1..Len(executed) :
        executed[i].event = "statement" /\ executed[i].statement = block

\* The result is the value
Is(object) == result = [status |-> "Ok", object |-> object]

\* C15: `!v` is true iff v is falsy, `!!v` is true iff v is truthy, and
\* `if (v) {A} else {B}` evaluates A and not B iff v is truthy, B and not A
\* otherwise, and evaluates no block and yields Null when v is falsy and
\* there is no else block.
C15_Truthiness ==
    /\ (input.op = "prefix" /\ input.operator = "Exclamation")
           => Is(ObjBoolean(Falsy(input.object)))
    /\ input.op = "notnot" => Is(ObjBoolean(~Falsy(input.object)))
    /\ input.op = "if" =>
           IF ~Falsy(input.object)
           THEN Ran(Consequence) /\ ~Ran(Alternative) /\ Is(ObjInteger(1))
           ELSE /\ ~Ran(Consequence)
                /\ IF input.alternative = <<>>
                   THEN ~Ran(Alternative) /\ Is(ObjNull)
                   ELSE Ran(Alternative) /\ Is(ObjInteger(2))

\* `if (0) { 1 } else { 2 }` has evaluated the consequence: 0 is truthy
C15_Witness ==
    /\ input.op = "if" /\ input.object = ObjInteger(0)
    /\ input.alternative # <<>>
    /\ Ran(Consequence) /\ Is(ObjInteger(1))

(***************************************************************************)
(* The loop of main on lines whose evaluation fails                        *)
(***************************************************************************)
\* Lines whose evaluation fails part of the way, and lines that bind names
FailingLines ==
    { <<"5", "+", "true", ";", "5", ";">>,
      <<"let", "a", "=", "1", ";", "let", "b", "=", "zz", ";", "let", "c", "=", "3",
        ";">>,
      <<"let", "a", "=", "2", ";", "let", "a", "=", "-", "true", ";", "a", ";">>,
      <<"fn", "(", "x", ")", "{", "x", "+", "true", ";", "7", "}", "(", "1", ")", ";",
        "8", ";">>,
      <<"let", "f", "=", "fn", "(", "x", ",", "y", ")", "{", "x", "}", ";", "f", "(",
        "zz", ",", "1", "+", "1", ")", ";">>,
      <<"(", "true", "+", "1", ")", "*", "(", "2", "+", "3", ")", ";">>,
      <<"if", "(", "zz", ")", "{", "1", "}", "else", "{", "2", "}", ";">>,
      <<"if", "(", "true", ")", "{", "let", "d", "=", "4", ";", "-", "true", ";",
        "let", "e", "=", "5", "}", ";", "9", ";">>,
      <<"let", "a", "=", "5", ";", "let", "b", "=", "a", "+", "1", ";", "b", ";">>,
      <<"let", "g", "=", "fn", "(", ")", "{", "let", "a", "=", "zz", ";", "a", "}",
        ";", "let", "b", "=", "6", ";", "g", "(", ")", ";", "let", "c", "=", "7", ";">>,
      <<"!", "(", "-", "true", ")", ";">>,
      <<"let", "b", "=", "if", "(", "1", "<", "2", ")", "{", "zz", "}", ";">>,
      <<"let", "c", "=", "8", ";", "return", "c", ";", "let", "c", "=", "9", ";">> }

NextFailing == \E line \in FailingLines : ReadEvalPrint(line)

SpecFailing == Init /\ [][NextFailing]_vars

\* C16: an evaluation error aborts the whole program: the failure is the
\* last step of the evaluation (no statement, operand or argument is evaluated
\* after it), eval returns that error, and `5 + true; 5;` fails with the type
\* mismatch.
C16_ErrorAborts ==
    (lines > 0 /\ parsed.ok) =>
        /\ \A i \in StepsOf("error") :
              /\ i = Len(executed)
              /\ result = [status |-> "Err", error |-> executed[i].error]
        /\ result.status = "Err" => StepsOf("error") # {}
        /\ input = <<"5", "+", "true", ";", "5", ";">> =>
              /\ result.status = "Err"
              /\ result.error = [error |-> "TypeMissMatch",
                                 left |-> ObjInteger(5), operator |-> "Plus",
                                 right |-> ObjBoolean(TRUE)]

\* `f(zz, 1 + 1)` has failed on its first argument, after evaluating f, and
\* the failure is the last step
C16_Witness ==
    /\ lines > 0 /\ parsed.ok
    /\ result.status = "Err" /\ result.error.error = "NotFoundIdentifier"
    /\ \E i \in StepsOf("expression") : executed[i].expression.kind = "Call"
    /\ executed[Len(executed)].event = "error"

\* The lets of the last evaluation that bound a name in the cell
LetsOn(log, c) ==
    { i \in 1..Len(log) : log[i].event = "let" /\ log[i].env = c }

\* The last let of the name in the cell
LastLet(log, c, name) ==
    CHOOSE i \in LetsOn(log, c) :
        /\ log[i].name = name
        /\ \A j \in LetsOn(log, c) : log[j].name = name => j <= i

\* C17: when the evaluation of a program fails, every cell that existed
\* before it holds what it held, overridden by the lets executed before the
\* failure, each name with the value of its last let; nothing else is bound,
\* so a let whose value expression fails binds nothing and leaves the
\* previous binding of its name.
C17_BindingsSurviveFailure ==
    [][(parsed'.ok /\ result'.status = "Err") =>
          \A c \in 1..Len(heap) :
             /\ DOMAIN heap'[c].store =
                    DOMAIN heap[c].store
                    \cup { executed'[i].name : i \in LetsOn(executed', c) }
             /\ \A name \in DOMAIN heap'[c].store :
                   heap'[c].store[name] =
                       IF \E i \in LetsOn(executed', c) : executed'[i].name = name
                       THEN executed'[LastLet(executed', c, name)].object
                       ELSE heap[c].store[name]]_vars

\* `let a = 2; let a = -true; a;` has failed and a is 2; and after
\* `let a = 1; let b = zz; let c = 3;` has failed, a is bound and b is not
C17_Witness ==
    /\ lines > 0 /\ parsed.ok /\ result.status = "Err"
    /\ \/ /\ input[3] = "=" /\ input[4] = "2"
          /\ LetsOn(executed, Global) # {}
          /\ heap[Global].store["a"] = ObjInteger(2)
       \/ /\ input[4] = "1" /\ input[7] = "b"
          /\ heap[Global].store["a"] = ObjInteger(1)
          /\ "b" \notin DOMAIN heap[Global].store

(***************************************************************************)
(* The parser on malformed sources: a token of every kind at a place where *)
(* the parser requires one token, an identifier or the start of an         *)
(* expression                                                              *)
(***************************************************************************)
\* A token of every kind of token.rs but EndOfFile, which is the end of the
\* stream
TokenKinds ==
    { Token(type) : type \in
        {"Illegal", "Assign", "Plus", "Minus", "Exclamation", "Asterisk", "Slash",
         "LessThan", "GreaterThan", "Equal", "NotEqual", "Comma", "Semicolon",
         "Lparentheses", "Rparentheses", "Lbrace", "Rbrace", "Function", "Let",
         "True", "False", "If", "Else", "Return"} }
    \cup { TokenIdentifier("z"), TokenInteger(7) }

\* The starts of sources up to a place where the parser calls expect_current:
\* the required token, and whether the place follows an expression or an
\* argument (where an operator or a comma would go on instead)
RequiredTokens ==
    { [prefix |-> <<Token("Let"), TokenIdentifier("x")>>,
       expected |-> "Assign", after |-> "name"],
      [prefix |-> <<Token("Lparentheses"), TokenInteger(1)>>,
       expected |-> "Rparentheses", after |-> "expression"],
      [prefix |-> <<Token("Let"), TokenIdentifier("y"), Token("Assign"),
                    Token("Lparentheses"), TokenIdentifier("a")>>,
       expected |-> "Rparentheses", after |-> "expression"],
      [prefix |-> <<TokenIdentifier("f"), Token("Lparentheses"), TokenInteger(1)>>,
       expected |-> "Rparentheses", after |-> "argument"],
      [prefix |-> <<TokenIdentifier("f"), Token("Lparentheses"), TokenInteger(1),
                    Token("Comma"), TokenInteger(2)>>,
       expected |-> "Rparentheses", after |-> "argument"],
      [prefix |-> <<Token("If")>>,
       expected |-> "Lparentheses", after |-> "keyword"],
      [prefix |-> <<Token("Function")>>,
       expected |-> "Lparentheses", after |-> "keyword"],
      [prefix |-> <<Token("If"), Token("Lparentheses"), TokenIdentifier("a")>>,
       expected |-> "Rparentheses", after |-> "expression"],
      [prefix |-> <<Token("If"), Token("Lparentheses"), TokenIdentifier("a"),
                    Token("Rparentheses")>>,
       expected |-> "Lbrace", after |-> "keyword"],
      [prefix |-> <<Token("If"), Token("Lparentheses"), TokenIdentifier("a"),
                    Token("Rparentheses"), Token("Lbrace"), TokenInteger(1),
                    Token("Rbrace"), Token("Else")>>,
       expected |-> "Lbrace", after |-> "keyword"],
      [prefix |-> <<Token("Function"), Token("Lparentheses"), Token("Rparentheses")>>,
       expected |-> "Lbrace", after |-> "keyword"],
      [prefix |-> <<Token("Function"), Token("Lparentheses"), TokenIdentifier("x")>>,
       expected |-> "Rparentheses", after |-> "argument"],
      [prefix |-> <<Token("Function"), Token("Lparentheses"), TokenIdentifier("x"),
                    Token("Comma"), TokenIdentifier("y"), Token("Rparentheses")>>,
       expected |-> "Lbrace", after |-> "keyword"] }

\* The tokens that are not the required one and do not extend what stands
\* before the place
WrongTokens(required) ==
    { token \in TokenKinds :
        /\ token.type # required.expected
        /\ required.after \in {"expression", "argument"} => precedence(token) = Lowest
        /\ required.after = "argument" => token.type # "Comma" }

\* What follows the token at the place: nothing or more tokens
Rests == { <<>>, <<TokenInteger(1), Token("Semicolon")>> }

\* A wrong token at a place where one token is required; the empty slot is
\* the end of the stream
RequiredSources ==
    { required.prefix \o <<token>> \o rest :
        required \in RequiredTokens, token \in TokenKinds, rest \in Rests }
    \cup { required.prefix : required \in RequiredTokens }

\* `let` followed by a token that is no identifier
LetSources ==
    { <<Token("Let"), token>> \o rest :
        token \in TokenKinds \ {TokenIdentifier("z")},
        rest \in { <<>>, <<Token("Assign"), TokenInteger(1), Token("Semicolon")>>,
                   <<TokenIdentifier("x"), Token("Assign"), TokenInteger(1)>> } }
    \cup { <<Token("Let")>> }

\* The starts of sources up to a place where an expression must start
ExpressionStarts ==
    { <<>>,
      <<Token("Let"), TokenIdentifier("x"), Token("Assign")>>,
      <<Token("Return")>>,
      <<TokenInteger(1), Token("Plus")>>,
      <<Token("Minus")>>,
      <<Token("Lparentheses")>>,
      <<TokenIdentifier("f"), Token("Lparentheses"), TokenInteger(1), Token("Comma")>> }

\* The tokens for which parse_expression has no prefix rule
NoPrefixRule ==
    { token \in TokenKinds :
        token.type \notin {"Identifier", "Integer", "True", "False", "Minus",
                           "Exclamation", "Lparentheses", "If", "Function"} }

\* A token in expression position; at the start of a statement `let` and
\* `return` start a statement of their own
ExpressionSources ==
    { start \o <<token>> \o rest :
        start \in ExpressionStarts, token \in TokenKinds, rest \in Rests }

MalformedSources == RequiredSources \cup LetSources \cup ExpressionSources

InitMalformed ==
    /\ pc = "source" /\ input \in MalformedSources
    /\ code = None /\ parsed = None
    /\ heap = None /\ result = None /\ executed = None /\ lines = 0
    /\ overflow_checks = TRUE

NextMalformed == Parse

SpecMalformed == InitMalformed /\ [][NextMalformed]_vars

\* The token at a place of the stream: EndOfFile past its end
TokenAt(source, i) == IF i <= Len(source) THEN source[i] ELSE Token("EndOfFile")

\* C18: where the parser requires one token and another stands there
\* (EndOfFile at the end of the stream), parse_program fails with
\* UnexpectedToken: actual_token is the token at that place and
\* expected_token the required token.
C18_UnexpectedToken ==
    pc = "parsed" =>
        \A required \in RequiredTokens :
           /\ Len(input) >= Len(required.prefix)
           /\ SubSeq(input, 1, Len(required.prefix)) = required.prefix
           /\ TokenAt(input, Len(required.prefix) + 1)
                  \in WrongTokens(required) \cup {Token("EndOfFile")}
           => /\ ~parsed.ok
              /\ parsed.error =
                     [error |-> "UnexpectedToken",
                      actual_token |-> TokenAt(input, Len(required.prefix) + 1),
                      expected_token |-> Token(required.expected)]

\* `if (a) return 1;` has been parsed: Lbrace was required, Return was found
C18_Witness ==
    /\ pc = "parsed"
    /\ input = <<Token("If"), Token("Lparentheses"), TokenIdentifier("a"),
                 Token("Rparentheses"), Token("Return"), TokenInteger(1),
                 Token("Semicolon")>>
    /\ ~parsed.ok
    /\ parsed.error = [error |-> "UnexpectedToken",
                       actual_token |-> Token("Return"),
                       expected_token |-> Token("Lbrace")]

\* C19: when the token after `let` is no identifier, parse_program fails
\* with NotFoundLetIdentifier whose found_token is the token after `let`,
\* the one that stands where the identifier was expected.
C19_LetIdentifier ==
    (pc = "parsed" /\ input \in LetSources) =>
        /\ ~parsed.ok
        /\ parsed.error = [error |-> "NotFoundLetIdentifier",
                           found_token |-> TokenAt(input, 2)]

\* C20: when the token in expression position has no prefix rule,
\* parse_program fails with the unimplemented-expression error, and the
\* error carries that token.
C20_OffendingToken ==
    pc = "parsed" =>
        \A start \in ExpressionStarts :
           /\ Len(input) > Len(start)
           /\ SubSeq(input, 1, Len(start)) = start
           /\ input[Len(start) + 1] \in NoPrefixRule
           /\ start = <<>> => input[1].type \notin {"Let", "Return"}
           => /\ ~parsed.ok
              /\ parsed.error.error = "UnImplementationParser"
              /\ \E field \in DOMAIN parsed.error \ {"error", "message"} :
                    parsed.error[field] = input[Len(start) + 1]

(***************************************************************************)
(* The parser on token streams: every stream of a few tokens, statements   *)
(* before and after a failure, and function literals with parameter lists  *)
(***************************************************************************)
\* The longest stream of which every arrangement of tokens is parsed
MaxTokens == 3

\* The tokens the streams are made of
StreamTokens ==
    { TokenIdentifier("a"), TokenInteger(1) }
    \cup { Token(type) : type \in
             {"Plus", "Exclamation", "Lparentheses", "Rparentheses", "Lbrace",
              "Rbrace", "Comma", "Semicolon", "Let", "Assign", "If", "Else",
              "Function", "Return", "Illegal"} }

\* Every stream of at most MaxTokens tokens
Streams == UNION { [1..n -> StreamTokens] : n \in 0..MaxTokens }

\* Statements that parse, to stand before a failure
GoodStarts ==
    { <<>>,
      <<Token("Let"), TokenIdentifier("a"), Token("Assign"), TokenInteger(1),
        Token("Semicolon")>>,
      <<TokenIdentifier("a"), Token("Semicolon"), Token("Return"),
        TokenIdentifier("b"), Token("Semicolon")>> }

\* What stands after the failure: nothing, a statement that parses, a
\* statement that fails too
Tails ==
    { <<>>,
      <<Token("Semicolon"), Token("Let"), TokenIdentifier("c"), Token("Assign"),
        TokenInteger(3), Token("Semicolon")>>,
      <<Token("Semicolon"), Token("Let"), Token("Assign")>> }

\* Statements that parse, a statement with a wrong token where one token is
\* required, and more tokens
StoppedSources ==
    UNION { { good \o required.prefix \o <<token>> \o tail :
                good \in GoodStarts, token \in WrongTokens(required),
                tail \in Tails } :
            required \in RequiredTokens }

\* Parameter lists: identifiers and other expressions
ParameterLists ==
    { <<>>,
      <<TokenIdentifier("x")>>,
      <<TokenIdentifier("x"), Token("Comma"), TokenIdentifier("y")>>,
      <<TokenInteger(1)>>,
      <<TokenIdentifier("x"), Token("Plus"), TokenInteger(1)>>,
      <<TokenIdentifier("x"), Token("Comma"), Token("True")>>,
      <<Token("Minus"), TokenIdentifier("x")>>,
      <<Token("Lparentheses"), TokenIdentifier("x"), Token("Rparentheses")>>,
      <<TokenIdentifier("g"), Token("Lparentheses"), Token("Rparentheses")>>,
      <<Token("Let")>>,
      <<TokenIdentifier("x"), Token("Comma")>>,
      <<TokenIdentifier("x"), TokenIdentifier("y")>> }

\* `fn(parameters) { body }`, alone, bound by a let, called, and inside the
\* body of another function literal
ParameterSources ==
    { before \o <<Token("Function"), Token("Lparentheses")>> \o parameters
      \o <<Token("Rparentheses"), Token("Lbrace")>> \o body \o <<Token("Rbrace")>>
      \o after :
        before \in { <<>>, <<Token("Let"), TokenIdentifier("f"), Token("Assign")>>,
                     <<Token("Function"), Token("Lparentheses"),
                       TokenIdentifier("z"), Token("Rparentheses"),
                       Token("Lbrace")>> },
        parameters \in ParameterLists,
        body \in { <<>>, <<TokenIdentifier("x")>> },
        after \in { <<>>, <<Token("Semicolon")>>,
                    <<Token("Lparentheses"), TokenInteger(2),
                      Token("Rparentheses")>> } }

StreamSources ==
    Streams \cup StoppedSources \cup ParameterSources \cup MalformedSources
    \cup Sources

InitStreams ==
    /\ pc = "source" /\ input \in StreamSources
    /\ code = None /\ parsed = None
    /\ heap = None /\ result = None /\ executed = None /\ lines = 0
    /\ overflow_checks = TRUE

NextStreams == Parse

SpecStreams == InitStreams /\ [][NextStreams]_vars

\* The iterations of a loop that the trace of the parser records
Begins(loop) ==
    { i \in 1..Len(parsed.parser.trace) :
        parsed.parser.trace[i].at = "begin" /\ parsed.parser.trace[i].loop = loop }

\* C21: parse_program stops at the first parse error: its result is the
\* error alone, without the statements parsed before it; it has read no
\* token beyond the one after the failing token, and it has begun no
\* statement after the failing one.
C21_StopsAtFirstError ==
    pc = "parsed" =>
        \A good \in GoodStarts, required \in RequiredTokens :
           LET place == Len(good) + Len(required.prefix) + 1
           IN  /\ Len(input) >= place
               /\ SubSeq(input, 1, place - 1) = good \o required.prefix
               /\ input[place] \in WrongTokens(required)
               => /\ ~parsed.ok
                  /\ DOMAIN parsed = {"ok", "error", "parser"}
                  /\ parsed.error =
                         [error |-> "UnexpectedToken",
                          actual_token |-> input[place],
                          expected_token |-> Token(required.expected)]
                  /\ parsed.parser.current_token = input[place]
                  /\ parsed.parser.read = place + 1
                  /\ Len(parsed.parser.lexer) =
                         IF Len(input) > place THEN Len(input) - place - 1 ELSE 0
                  /\ \A i \in Begins("program") :
                        parsed.parser.trace[i].read <= Len(good) + 2

\* Two statements were parsed, the third failed on `let x 7`, and a fourth
\* statement stands unread after it
C21_Witness ==
    /\ pc = "parsed" /\ ~parsed.ok
    /\ input = <<TokenIdentifier("a"), Token("Semicolon"), Token("Return"),
                 TokenIdentifier("b"), Token("Semicolon"),
                 Token("Let"), TokenIdentifier("x"), TokenInteger(7),
                 Token("Semicolon"), Token("Let"), TokenIdentifier("c"),
                 Token("Assign"), TokenInteger(3), Token("Semicolon")>>
    /\ Cardinality(Begins("program")) = 3
    /\ Len(parsed.parser.lexer) = 5

RECURSIVE ParametersAreIdentifiers(_)
\* Every parameter of every function literal in the node is an Identifier
ParametersAreIdentifiers(node) ==
    CASE node.kind = "PrefixExpression" -> ParametersAreIdentifiers(node.expression)
      [] node.kind = "InfixExpression" ->
             ParametersAreIdentifiers(node.left) /\ ParametersAreIdentifiers(node.right)
      [] node.kind = "IfExpression" ->
             /\ ParametersAreIdentifiers(node.condition)
             /\ ParametersAreIdentifiers(node.consequence)
             /\ \A i \in 1..Len(node.alternative) :
                   ParametersAreIdentifiers(node.alternative[i])
      [] node.kind = "Function" ->
             /\ \A i \in 1..Len(node.parameters) :
                   node.parameters[i].kind = "Identifier"
             /\ ParametersAreIdentifiers(node.body)
      [] node.kind = "Call" ->
             /\ ParametersAreIdentifiers(node.function)
             /\ \A i \in 1..Len(node.args) : ParametersAreIdentifiers(node.args[i])
      [] node.kind = "Let" -> ParametersAreIdentifiers(node.value)
      [] node.kind \in {"Return", "Expression"} ->
             ParametersAreIdentifiers(node.expression)
      [] node.kind = "Block" ->
             \A i \in 1..Len(node.statements) :
                ParametersAreIdentifiers(node.statements[i])
      [] OTHER -> TRUE

\* C22: in every program that parse_program returns, every parameter of
\* every function literal is an Identifier expression.
C22_ParametersAreIdentifiers ==
    (pc = "parsed" /\ parsed.ok) =>
        \A i \in 1..Len(parsed.value.statements) :
           ParametersAreIdentifiers(parsed.value.statements[i])

\* C29: parse_program never fails with NotFoundInfixToken: an iteration of
\* the infix loop begins only before a token whose precedence is above Lowest,
\* and each such token is one of the eight infix operators or `(`.
C29_InfixTokenFound ==
    pc = "parsed" =>
        /\ ~parsed.ok => parsed.error.error # "NotFoundInfixToken"
        /\ \A i \in Begins("infix") :
              /\ precedence(parsed.parser.trace[i].next_token) > Lowest
              /\ parsed.parser.trace[i].next_token.type
                     \in InfixTokens \cup {"Lparentheses"}

\* `a + 1` has been parsed through one iteration of the infix loop
C29_Witness ==
    /\ pc = "parsed" /\ parsed.ok
    /\ input = <<TokenIdentifier("a"), Token("Plus"), TokenInteger(1)>>
    /\ Cardinality(Begins("infix")) = 1
    /\ parsed.value.statements[1].expression.kind = "InfixExpression"

\* The kinds of ParserError that the parser builds
ParserErrors ==
    {"UnexpectedToken", "NotFoundInfixToken", "NotFoundLetIdentifier",
     "UnImplementationParser"}

\* C30: parse_program ends with a Program or a parse error, and of its loops
\* (the statements of the program and of a block, the infix operators, the
\* parameters) every iteration begins on a token of the stream, not on
\* EndOfFile, every iteration that ends has read at least one token, and the
\* iterations of one loop begin ever further in the stream, so that there
\* are at most as many as the stream has tokens.
C30_ParserTerminates ==
    pc = "parsed" =>
        /\ IF parsed.ok THEN DOMAIN parsed.value = {"statements"}
           ELSE parsed.error.error \in ParserErrors
        /\ \A i \in 1..Len(parsed.parser.trace) :
              LET step == parsed.parser.trace[i]
              IN  IF step.at = "end" THEN step.read > step.from
                  ELSE IF step.loop = "infix"
                       THEN step.next_token.type # "EndOfFile"
                       ELSE step.current_token.type # "EndOfFile"
        /\ \A loop \in {"program", "block", "infix", "parameters"} :
              /\ \A i \in Begins(loop), j \in Begins(loop) :
                    i < j => parsed.parser.trace[i].read < parsed.parser.trace[j].read
              /\ Cardinality(Begins(loop)) <= Len(input)

\* `fn() { 1;` has been parsed to a Program: the block left open ends at
\* EndOfFile after one iteration
C30_Witness ==
    /\ pc = "parsed" /\ parsed.ok
    /\ input = <<Token("Function"), Token("Lparentheses"), Token("Rparentheses"),
                 Token("Lbrace"), TokenInteger(1), Token("Semicolon")>>
    /\ Cardinality(Begins("block")) = 1
    /\ parsed.parser.current_token = Token("EndOfFile")

\* The quotient of l by r truncated toward zero, for r # 0 and a quotient
\* within i32: the whole part of |l| / |r| with the sign of the quotient
\* (the magnitude of the least i32 is one more than that of I32Max)
TruncatedQuotient(l, r) ==
    CASE r = 1 -> l
      [] r = -1 -> -l
      [] r = I32Min -> IF l = I32Min THEN 1 ELSE 0
      [] OTHER ->
           LET divisor == IF r < 0 THEN -r ELSE r
               whole == IF l = I32Min
                        THEN (I32Max \div divisor)
                             + (IF I32Max % divisor = divisor - 1 THEN 1 ELSE 0)
                        ELSE (IF l < 0 THEN -l ELSE l) \div divisor
           IN  IF (l < 0) # (r < 0) THEN -whole ELSE whole

\* C23 as stated: l / r with r # 0 yields the quotient truncated toward zero,
\* and with r = 0 evaluation ends in a fatal fault, not in an error value.
C23_DivisionAlways ==
    (input.op = "infix" /\ BothInteger /\ input.operator = "Slash") =>
        IF input.right.integer = 0 THEN result.status = "Panic"
        ELSE /\ Yields("Integer")
             /\ result.object.integer =
                    TruncatedQuotient(input.left.integer, input.right.integer)

\* C23 amended: l / r with r # 0 yields the quotient truncated toward zero,
\* except for the least i32 divided by -1, whose quotient is no i32 and which
\* ends in a fatal fault; with r = 0 evaluation ends in a fatal fault, not in
\* an error value.
C23_Division ==
    (input.op = "infix" /\ BothInteger /\ input.operator = "Slash") =>
        IF \/ input.right.integer = 0
           \/ (input.left.integer = I32Min /\ input.right.integer = -1)
        THEN result.status = "Panic"
        ELSE /\ Yields("Integer")
             /\ result.object.integer =
                    TruncatedQuotient(input.left.integer, input.right.integer)

\* -7 / 2 has been evaluated and is -3
C23_Witness ==
    /\ input.op = "infix" /\ input.operator = "Slash"
    /\ input.left = ObjInteger(-7) /\ input.right = ObjInteger(2)
    /\ Is(ObjInteger(-3))

(***************************************************************************)
(* The loop of main on calls of values that are not functions and on       *)
(* expressions of which several parts fail                                 *)
(***************************************************************************)
\* Calls of values that are not functions, and expressions of which several parts fail
FaultLines ==
    { <<"5", "(", "1", ")", ";">>,
      <<"true", "(", "1", ",", "2", ")", ";">>,
      <<"let", "n", "=", "5", ";", "n", "(", ")", ";", "7", ";">>,
      <<"if", "(", "false", ")", "{", "1", "}", "(", "2", ")", ";">>,
      <<"5", "(", "zz", ")", ";">>,
      <<"5", "(", "1", "+", "true", ",", "2", ")", ";">>,
      <<"5", "(", "2", ")", "(", "3", ")", ";">>,
      <<"5", "(", "fn", "(", "x", ")", "{", "x", "}", "(", "1", ")", ")", ";">>,
      <<"fn", "(", "x", ")", "{", "x", "}", "(", "1", ")", "(", "2", ")", ";">>,
      <<"let", "f", "=", "fn", "(", "x", ")", "{", "x", "(", "1", ")", "}", ";", "f",
        "(", "5", ")", ";", "8", ";">>,
      <<"-", "true", "+", "100", ";">>,
      <<"zz", "+", "vv", ";">>,
      <<"(", "true", "+", "1", ")", "+", "(", "-", "true", ")", ";">>,
      <<"-", "zz", ";">>,
      <<"zz", "(", "vv", ")", ";">>,
      <<"let", "f", "=", "fn", "(", "a", ",", "b", ")", "{", "a", "}", ";", "f", "(",
        "zz", ",", "vv", ")", ";">>,
      <<"true", "+", "zz", ";">>,
      <<"zz", "+", "true", ";">>,
      <<"if", "(", "zz", ")", "{", "vv", "}", ";">>,
      <<"-", "true", "-", "(", "1", "+", "true", ")", ";">>,
      <<"!", "(", "true", "<", "false", ")", ";">> }

NextFaults == \E line \in FaultLines : ReadEvalPrint(line)

SpecFaults == Init /\ [][NextFaults]_vars

\* The error of the part evaluated first, for each line of which several
\* parts fail
FirstFailure ==
    { [line |->
          <<"-", "true", "+", "100", ";">>,
       error |-> [error |-> "UnknowPrefixOperator", operator |-> "Minus",
                  right |-> ObjBoolean(TRUE)]],
      [line |->
          <<"zz", "+", "vv", ";">>,
       error |-> [error |-> "NotFoundIdentifier", identifier |-> "zz"]],
      [line |->
          <<"(", "true", "+", "1", ")", "+", "(", "-", "true", ")", ";">>,
       error |-> [error |-> "TypeMissMatch", left |-> ObjBoolean(TRUE),
                  operator |-> "Plus", right |-> ObjInteger(1)]],
      [line |->
          <<"-", "zz", ";">>,
       error |-> [error |-> "NotFoundIdentifier", identifier |-> "zz"]],
      [line |->
          <<"zz", "(", "vv", ")", ";">>,
       error |-> [error |-> "NotFoundIdentifier", identifier |-> "zz"]],
      [line |->
          <<"let", "f", "=", "fn", "(", "a", ",", "b", ")", "{", "a", "}", ";", "f",
            "(", "zz", ",", "vv", ")", ";">>,
       error |-> [error |-> "NotFoundIdentifier", identifier |-> "zz"]],
      [line |->
          <<"true", "+", "zz", ";">>,
       error |-> [error |-> "NotFoundIdentifier", identifier |-> "zz"]],
      [line |->
          <<"zz", "+", "true", ";">>,
       error |-> [error |-> "NotFoundIdentifier", identifier |-> "zz"]],
      [line |->
          <<"if", "(", "zz", ")", "{", "vv", "}", ";">>,
       error |-> [error |-> "NotFoundIdentifier", identifier |-> "zz"]],
      [line |->
          <<"-", "true", "-", "(", "1", "+", "true", ")", ";">>,
       error |-> [error |-> "UnknowPrefixOperator", operator |-> "Minus",
                  right |-> ObjBoolean(TRUE)]],
      [line |->
          <<"!", "(", "true", "<", "false", ")", ";">>,
       error |-> [error |-> "UnknowInfixOperator", left |-> ObjBoolean(TRUE),
                  operator |-> "LessThan", right |-> ObjBoolean(FALSE)]],
      [line |->
          <<"5", "(", "zz", ")", ";">>,
       error |-> [error |-> "NotFoundIdentifier", identifier |-> "zz"]],
      [line |->
          <<"5", "(", "1", "+", "true", ",", "2", ")", ";">>,
       error |-> [error |-> "TypeMissMatch", left |-> ObjInteger(1),
                  operator |-> "Plus", right |-> ObjBoolean(TRUE)]] }

\* The callee of the call expression is a literal that is no function
LiteralCallee(i) ==
    /\ executed[i].event = "expression" /\ executed[i].expression.kind = "Call"
    /\ executed[i].expression.function.kind \in {"Integer", "Boolean"}

\* C24 as stated: a call whose callee evaluates to a value that is no
\* Function ends in a fatal fault, never in an EvaluatorError and never in a
\* value.
C24_AlwaysFaults ==
    (lines > 0 /\ parsed.ok) =>
        \A i \in 1..Len(executed) : LiteralCallee(i) => result.status = "Panic"

\* C24 amended: a call whose callee evaluates to a value that is no Function
\* ends in a fatal fault, never in a value and never in an EvaluatorError of
\* its own: the fault is the last step and comes after every argument was
\* evaluated without error; when the evaluation of an argument fails, it
\* ends in the error of that argument and the callee is not applied.
C24_CallOfNonFunction ==
    (lines > 0 /\ parsed.ok) =>
        /\ \A k \in StepsOf("apply") :
              executed[k].object.type # "Function" =>
                 /\ k = Len(executed)
                 /\ result.status = "Panic"
                 /\ StepsOf("error") = {}
                 /\ Len(executed[k].args) = Len(executed[CallOf(k)].expression.args)
                 /\ InOrder(executed[CallOf(k)].expression.args, 1,
                            executed[CallOf(k)].env, CallOf(k) + 1, k)
        /\ \A i \in 1..Len(executed) :
              LiteralCallee(i) =>
                 /\ result.status \in {"Panic", "Err"}
                 /\ result.status = "Err" =>
                       /\ AppliesBetween(i, Len(executed) + 1) = {}
                       /\ executed[Len(executed)].event = "error"
                       /\ executed[i].expression.args # <<>>
                 /\ result.status = "Panic" =>
                       \E k \in StepsOf("apply") :
                          k > i /\ executed[k].object.type # "Function"

\* `5(fn(x) { x }(1));` has evaluated its argument, a call that yielded 1,
\* and has ended in the fault
C24_Witness ==
    /\ lines > 0 /\ parsed.ok /\ result.status = "Panic"
    /\ executed[Len(executed)].event = "apply"
    /\ executed[Len(executed)].object = ObjInteger(5)
    /\ executed[Len(executed)].args = <<ObjInteger(1)>>
    /\ StepsOf("applied") # {}

\* C26: the error that eval returns is that of the part evaluated first: the
\* operand of a prefix operator before the check of the operator, the left
\* operand before the right one, both operands before the type check of the
\* infix operator, the callee before the arguments, the arguments from left
\* to right; it is the only failure of the evaluation and reaches the caller
\* unchanged.
C26_FirstErrorWins ==
    (lines > 0 /\ parsed.ok) =>
        /\ \A entry \in FirstFailure :
              input = entry.line =>
                 /\ result = [status |-> "Err", error |-> entry.error]
                 /\ StepsOf("error") = {Len(executed)}
                 /\ executed[Len(executed)].error = entry.error
        /\ \A k \in StepsOf("error") :
              CASE executed[k].error.error \in {"TypeMissMatch",
                      "UnknowInfixOperator"} ->
                       /\ executed[k - 1].event = "infix"
                       /\ executed[k - 1].left = executed[k].error.left
                       /\ executed[k - 1].right = executed[k].error.right
                [] executed[k].error.error = "UnknowPrefixOperator" ->
                       /\ executed[k - 1].event = "prefix"
                       /\ executed[k - 1].object = executed[k].error.right
                [] OTHER ->
                       /\ executed[k - 1].event = "expression"
                       /\ executed[k - 1].expression =
                              ExprIdentifier(executed[k].error.identifier)

\* `-true + 100` has failed with the error of the prefix operator, and the
\* right operand 100 was not evaluated
C26_Witness ==
    /\ lines > 0 /\ parsed.ok
    /\ input = <<"-", "true", "+", "100", ";">>
    /\ result.status = "Err" /\ result.error.error = "UnknowPrefixOperator"
    /\ \A i \in StepsOf("expression") : executed[i].expression # ExprInteger(100)

(***************************************************************************)
(* The loop of main on function bodies without return and on lets in the   *)
(* blocks of an if and in function bodies                                  *)
(***************************************************************************)
\* Calls of functions whose bodies execute no return
BodyLines ==
    { <<"fn", "(", ")", "{", "}", "(", ")", ";">>,
      <<"fn", "(", ")", "{", "1", ";", "2", "}", "(", ")", ";">>,
      <<"fn", "(", "x", ")", "{", "x", ";", "x", "+", "1", ";", "}", "(", "5", ")",
        ";">>,
      <<"fn", "(", ")", "{", "1", ";", "let", "a", "=", "2", ";", "}", "(", ")", ";">>,
      <<"fn", "(", ")", "{", "let", "a", "=", "2", ";", "a", "}", "(", ")", ";">>,
      <<"fn", "(", ")", "{", "if", "(", "false", ")", "{", "1", "}", "}", "(", ")",
        ";">>,
      <<"fn", "(", ")", "{", "if", "(", "true", ")", "{", "1", ";", "2", "}", "}", "(",
        ")", ";">>,
      <<"let", "id", "=", "fn", "(", "x", ")", "{", "x", "}", ";", "id", "(", "id",
        "(", "3", ")", ")", ";">>,
      <<"fn", "(", "x", ")", "{", "x", ";", "let", "y", "=", "x", ";", "let", "z", "=",
        "y", ";", "}", "(", "4", ")", ";">> }

\* Lets in the blocks of an if and in the bodies of functions
ScopeLines ==
    { <<"let", "a", "=", "1", ";", "if", "(", "true", ")", "{", "let", "a", "=", "2",
        ";", "let", "b", "=", "3", "}", ";", "a", "+", "b", ";">>,
      <<"if", "(", "false", ")", "{", "let", "c", "=", "1", "}", "else", "{", "let",
        "c", "=", "2", "}", ";", "c", ";">>,
      <<"let", "g", "=", "fn", "(", ")", "{", "if", "(", "true", ")", "{", "let", "d",
        "=", "4", "}", ";", "d", "}", ";", "g", "(", ")", ";">>,
      <<"if", "(", "true", ")", "{", "if", "(", "true", ")", "{", "let", "e", "=", "5",
        "}", "}", ";", "e", ";">>,
      <<"let", "a", "=", "1", ";", "let", "f", "=", "fn", "(", "a", ")", "{", "let",
        "b", "=", "a", ";", "let", "a", "=", "7", ";", "b", "}", ";", "f", "(", "2",
        ")", ";", "a", ";">>,
      <<"let", "f", "=", "fn", "(", "x", ")", "{", "let", "y", "=", "x", ";", "y", "}",
        ";", "f", "(", "1", ")", ";", "y", ";">>,
      <<"let", "mk", "=", "fn", "(", ")", "{", "fn", "(", "v", ")", "{", "let", "w",
        "=", "v", ";", "w", "}", "}", ";", "let", "h", "=", "mk", "(", ")", ";", "h",
        "(", "1", ")", ";", "h", "(", "2", ")", ";">>,
      <<"let", "p", "=", "fn", "(", "x", ",", "z", ")", "{", "z", "}", ";", "p", "(",
        "1", ",", "2", ")", ";", "p", "(", "3", ")", ";">>,
      <<"let", "q", "=", "fn", "(", ")", "{", "if", "(", "true", ")", "{", "let", "r",
        "=", "1", "}", ";", "r", "}", ";", "q", "(", ")", ";", "r", ";">>,
      <<"fn", "(", ")", "{", "return", "1", ";", "2", "}", "(", ")", ";">> }

NextScopes == \E line \in BodyLines \cup ScopeLines : ReadEvalPrint(line)

SpecScopes == Init /\ [][NextScopes]_vars

\* For each call, the value of the last expression statement of the body,
\* Null for the empty body
LastExpressionStatement ==
    { [line |->
          <<"fn", "(", ")", "{", "}", "(", ")", ";">>,
       object |-> ObjNull],
      [line |->
          <<"fn", "(", ")", "{", "1", ";", "2", "}", "(", ")", ";">>,
       object |-> ObjInteger(2)],
      [line |->
          <<"fn", "(", "x", ")", "{", "x", ";", "x", "+", "1", ";", "}", "(", "5", ")",
            ";">>,
       object |-> ObjInteger(6)],
      [line |->
          <<"fn", "(", ")", "{", "1", ";", "let", "a", "=", "2", ";", "}", "(", ")",
            ";">>,
       object |-> ObjInteger(1)],
      [line |->
          <<"fn", "(", ")", "{", "let", "a", "=", "2", ";", "a", "}", "(", ")", ";">>,
       object |-> ObjInteger(2)],
      [line |->
          <<"fn", "(", ")", "{", "if", "(", "false", ")", "{", "1", "}", "}", "(", ")",
            ";">>,
       object |-> ObjNull],
      [line |->
          <<"fn", "(", ")", "{", "if", "(", "true", ")", "{", "1", ";", "2", "}", "}",
            "(", ")", ";">>,
       object |-> ObjInteger(2)],
      [line |->
          <<"let", "id", "=", "fn", "(", "x", ")", "{", "x", "}", ";", "id", "(", "id",
            "(", "3", ")", ")", ";">>,
       object |-> ObjInteger(3)],
      [line |->
          <<"fn", "(", "x", ")", "{", "x", ";", "let", "y", "=", "x", ";", "let", "z",
            "=", "y", ";", "}", "(", "4", ")", ";">>,
       object |-> ObjInteger(4)] }

\* For each call, the value of the last statement of the body: that of an
\* expression statement, Null for a let, Null for the empty body
LastStatement ==
    { [line |->
          <<"fn", "(", ")", "{", "}", "(", ")", ";">>,
       object |-> ObjNull],
      [line |->
          <<"fn", "(", ")", "{", "1", ";", "2", "}", "(", ")", ";">>,
       object |-> ObjInteger(2)],
      [line |->
          <<"fn", "(", "x", ")", "{", "x", ";", "x", "+", "1", ";", "}", "(", "5", ")",
            ";">>,
       object |-> ObjInteger(6)],
      [line |->
          <<"fn", "(", ")", "{", "1", ";", "let", "a", "=", "2", ";", "}", "(", ")",
            ";">>,
       object |-> ObjNull],
      [line |->
          <<"fn", "(", ")", "{", "let", "a", "=", "2", ";", "a", "}", "(", ")", ";">>,
       object |-> ObjInteger(2)],
      [line |->
          <<"fn", "(", ")", "{", "if", "(", "false", ")", "{", "1", "}", "}", "(", ")",
            ";">>,
       object |-> ObjNull],
      [line |->
          <<"fn", "(", ")", "{", "if", "(", "true", ")", "{", "1", ";", "2", "}", "}",
            "(", ")", ";">>,
       object |-> ObjInteger(2)],
      [line |->
          <<"let", "id", "=", "fn", "(", "x", ")", "{", "x", "}", ";", "id", "(", "id",
            "(", "3", ")", ")", ";">>,
       object |-> ObjInteger(3)],
      [line |->
          <<"fn", "(", "x", ")", "{", "x", ";", "let", "y", "=", "x", ";", "let", "z",
            "=", "y", ";", "}", "(", "4", ")", ";">>,
       object |-> ObjNull] }

\* C25 as stated: a call whose body executes no return yields the value of
\* the last expression statement of the body, and Null when the body is empty.
C25_LastExpressionStatement ==
    (lines > 0 /\ parsed.ok) =>
        \A entry \in LastExpressionStatement :
           input = entry.line => result = [status |-> "Ok", object |-> entry.object]

\* The step at which the call applied at step k has yielded its value: the
\* first applied step of its depth after k; 0 when the call has not returned
Returned(k) ==
    LET after == { x \in (k + 1)..Len(executed) :
                     executed[x].event = "applied"
                     /\ executed[x].depth = executed[k].depth }
    IN  IF after = {} THEN 0 ELSE CHOOSE x \in after : \A y \in after : x <= y

\* C25 amended: a call whose body executes no return yields the value of the
\* last statement of the body, which is the value of an expression statement
\* and Null for a let, and Null when the body is empty.
C25_LastStatement ==
    (lines > 0 /\ parsed.ok) =>
        /\ \A entry \in LastStatement :
              input = entry.line => result = [status |-> "Ok", object |-> entry.object]
        /\ \A k \in StepsOf("apply") :
              ( /\ executed[k].object.type = "Function"
                /\ Returned(k) # 0
                /\ \A x \in k..Returned(k) : executed[x].event # "return" ) =>
                 LET statements == executed[k].object.body.statements
                     last == statements[Len(statements)]
                     yielded == executed[Returned(k)].object
                 IN  CASE statements = <<>> -> yielded = ObjNull
                       [] last.kind = "Let" -> yielded = ObjNull
                       [] last.kind = "Expression"
                          /\ last.expression.kind = "Integer" ->
                              yielded = ObjInteger(last.expression.integer)
                       [] OTHER -> TRUE

\* `fn() { 1; let a = 2; }()` has yielded Null, the value of its last
\* statement
C25_Witness ==
    /\ lines > 0 /\ parsed.ok
    /\ input = <<"fn", "(", ")", "{", "1", ";", "let", "a", "=", "2", ";", "}",
                 "(", ")", ";">>
    /\ result = [status |-> "Ok", object |-> ObjNull]
    /\ StepsOf("let") # {}

\* The result of a line that ends in an identifier no scope binds
NotFound(name) ==
    [status |-> "Err", error |-> [error |-> "NotFoundIdentifier", identifier |-> name]]

\* What the statements after an if see of the lets of its blocks
AfterIf ==
    { [line |->
          <<"let", "a", "=", "1", ";", "if", "(", "true", ")", "{", "let", "a", "=",
            "2", ";", "let", "b", "=", "3", "}", ";", "a", "+", "b", ";">>,
       result |-> [status |-> "Ok", object |-> ObjInteger(5)]],
      [line |->
          <<"if", "(", "false", ")", "{", "let", "c", "=", "1", "}", "else", "{",
            "let", "c", "=", "2", "}", ";", "c", ";">>,
       result |-> [status |-> "Ok", object |-> ObjInteger(2)]],
      [line |->
          <<"let", "g", "=", "fn", "(", ")", "{", "if", "(", "true", ")", "{", "let",
            "d", "=", "4", "}", ";", "d", "}", ";", "g", "(", ")", ";">>,
       result |-> [status |-> "Ok", object |-> ObjInteger(4)]],
      [line |->
          <<"if", "(", "true", ")", "{", "if", "(", "true", ")", "{", "let", "e", "=",
            "5", "}", "}", ";", "e", ";">>,
       result |-> [status |-> "Ok", object |-> ObjInteger(5)]] }

\* The consequence and the alternative of an if-expression
BlocksOf(expression) ==
    {expression.consequence}
        \cup { expression.alternative[i] : i \in DOMAIN expression.alternative }

\* The step at which the if-expression of step e executes the block of step k
Enters(e, k) ==
    /\ e < k
    /\ executed[e].event = "expression"
    /\ executed[e].expression.kind = "IfExpression"
    /\ executed[k].event = "statement"
    /\ executed[k].statement \in BlocksOf(executed[e].expression)
    /\ \A x \in (e + 1)..(k - 1) :
          /\ executed[x].event = "statement" =>
                executed[x].statement # executed[k].statement
          /\ executed[x].event = "expression" =>
                executed[x].expression # executed[e].expression

\* C27: the blocks of an if-expression open no scope: a block is executed,
\* and a let in it binds its name, in the environment in which the
\* if-expression is evaluated; the binding is visible to the statements after
\* the if and overwrites an earlier binding of the name in that environment.
C27_IfOpensNoScope ==
    (lines > 0 /\ parsed.ok) =>
        /\ \A e \in StepsOf("expression"), k \in StepsOf("statement") :
              Enters(e, k) =>
                 /\ executed[k].env = executed[e].env
                 /\ \A i \in DOMAIN executed[k].statement.statements :
                       executed[k].statement.statements[i].kind = "Let" =>
                          \A j \in (k + 1)..Len(executed) :
                             ( /\ executed[j].event = "statement"
                               /\ executed[j].statement = executed[k].statement.statements[i]
                               /\ \A x \in (k + 1)..(j - 1) :
                                     executed[x].event \notin {"apply", "applied"} ) =>
                                executed[j].env = executed[e].env
        /\ \A entry \in AfterIf : input = entry.line => result = entry.result
        /\ \A j \in LetsOn(executed, Global) :
              j = LastLet(executed, Global, executed[j].name) =>
                 heap[Global].store[executed[j].name] = executed[j].object

\* The line `let a = 1; if (true) { let a = 2; let b = 3 }; a + b;` has
\* yielded 5: the lets of the block are bound in the global environment
C27_Witness ==
    /\ lines > 0 /\ parsed.ok
    /\ \E e \in StepsOf("expression"), k \in StepsOf("statement") : Enters(e, k)
    /\ \E j \in StepsOf("let") : executed[j].name = "b" /\ executed[j].env = Global
    /\ result = [status |-> "Ok", object |-> ObjInteger(5)]
    /\ heap[Global].store["a"] = ObjInteger(2)

\* What the statements after a call, and a later call, see of the bindings
\* of the call
AfterCall ==
    { [line |->
          <<"let", "a", "=", "1", ";", "let", "f", "=", "fn", "(", "a", ")", "{",
            "let", "b", "=", "a", ";", "let", "a", "=", "7", ";", "b", "}", ";", "f",
            "(", "2", ")", ";", "a", ";">>,
       result |-> [status |-> "Ok", object |-> ObjInteger(1)]],
      [line |->
          <<"let", "f", "=", "fn", "(", "x", ")", "{", "let", "y", "=", "x", ";", "y",
            "}", ";", "f", "(", "1", ")", ";", "y", ";">>,
       result |-> NotFound("y")],
      [line |->
          <<"let", "mk", "=", "fn", "(", ")", "{", "fn", "(", "v", ")", "{", "let",
            "w", "=", "v", ";", "w", "}", "}", ";", "let", "h", "=", "mk", "(", ")",
            ";", "h", "(", "1", ")", ";", "h", "(", "2", ")", ";">>,
       result |-> [status |-> "Ok", object |-> ObjInteger(2)]],
      [line |->
          <<"let", "p", "=", "fn", "(", "x", ",", "z", ")", "{", "z", "}", ";", "p",
            "(", "1", ",", "2", ")", ";", "p", "(", "3", ")", ";">>,
       result |-> NotFound("z")],
      [line |->
          <<"let", "q", "=", "fn", "(", ")", "{", "if", "(", "true", ")", "{", "let",
            "r", "=", "1", "}", ";", "r", "}", ";", "q", "(", ")", ";", "r", ";">>,
       result |-> NotFound("r")] }

\* The parameters that the call of step k binds: as many as there are
\* arguments
BoundBy(k) ==
    LET parameters == executed[k].object.parameters
        args == executed[k].args
    IN  { i \in DOMAIN parameters : i <= Len(args) }

\* C28: the bindings made during a call are confined to the environment of
\* the call: when the call returns, every cell that existed before it, the
\* caller's and the defining environment among them, holds what it held; the
\* environment of a call is a new cell that holds the parameters only and is
\* enclosed by the defining environment, so a later call sees no binding of
\* an earlier one.
C28_CallConfinesBindings ==
    (lines > 0 /\ parsed.ok) =>
        /\ \A k \in StepsOf("apply") :
              Returned(k) # 0 =>
                 \A c \in DOMAIN executed[k].cells :
                    executed[Returned(k)].cells[c] = executed[k].cells[c]
        /\ \A k \in StepsOf("bound") :
              LET call == executed[k - 1]
                  env == executed[k].env
                  cells == executed[k].cells
              IN  /\ call.event = "apply"
                  /\ env \notin DOMAIN call.cells
                  /\ DOMAIN cells[env].store =
                        { call.object.parameters[i].name : i \in BoundBy(k - 1) }
                  /\ \A i \in BoundBy(k - 1) :
                        (\A j \in BoundBy(k - 1) :
                            call.object.parameters[j].name
                                = call.object.parameters[i].name => j <= i) =>
                           cells[env].store[call.object.parameters[i].name] = call.args[i]
                  /\ cells[env].outer # <<>>
                  /\ cells[env].outer[1] \notin DOMAIN call.cells
                  /\ cells[cells[env].outer[1]] = call.object.environment
                  /\ \A c \in DOMAIN call.cells : cells[c] = call.cells[c]
        /\ \A entry \in AfterCall : input = entry.line => result = entry.result

\* The call f(2) of `let a = 1; let f = fn(a) { let b = a; let a = 7; b };
\* f(2); a;` has bound a to 7 in its own environment and has returned, and
\* the a of the caller is 1
C28_Witness ==
    /\ lines > 0 /\ parsed.ok
    /\ \E k \in StepsOf("apply") : Returned(k) # 0
    /\ \E j \in StepsOf("let") :
          /\ executed[j].name = "a" /\ executed[j].object = ObjInteger(7)
          /\ executed[j].env # Global
    /\ result = [status |-> "Ok", object |-> ObjInteger(1)]
    /\ heap[Global].store["a"] = ObjInteger(1)

====
